---- MODULE Spec2Model ----
(***************************************************************************)
(* bibi-sync: the lock-free SPSC ring buffers (RingBuffer<T> and           *)
(* ByteRingBuffer) of src/ring_buffer, modelled at the granularity of the  *)
(* individual loads and stores of push, pop and peek_latest.               *)
(*                                                                         *)
(* One producer thread runs push; one consumer thread runs pop and the     *)
(* peeks.  Loads of a field that only the loading thread ever writes       *)
(* (head and write_epoch for the producer) are folded into that thread's   *)
(* next shared access: no other thread can change the value in between.    *)
(***************************************************************************)
EXTENDS Integers, Sequences, FiniteSets, TLC

\* ------------------------------------------------------------ constants

SLOT_SIZE == 256

HEADER_SIZE == 12

MAX_PAYLOAD_SIZE == SLOT_SIZE - HEADER_SIZE

\* ---------------------------------------------------------------- bounds

\* Capacities 1..MaxCap are explored.
MaxCap == 3

\* Accepted pushes per behaviour when operations run one at a time.
MaxPush == 5

\* Accepted pushes per behaviour when producer and consumer interleave.
MaxPushConc == 3

\* Accepted pushes per behaviour when the payloads are the boundary ones.
MaxPushBoundary == 3

\* Topic objects the registry makes per behaviour.
MaxTopics == 3

\* Records published on the topics, per behaviour.
MaxPub == 2

\* Records published to the topic of a subscriber that also receives
MaxRecv == 2

\* Handles a C caller asks the registry for, per behaviour.
MaxFfiHandles == 2

\* Records a C caller gets published, per behaviour.
MaxFfiPub == 1

\* Chunks (frames, malformed frames, stray bytes) in the byte stream the
\* bridge reads, per behaviour.
MaxFrames == 2

\* Topic objects made per behaviour when topics are also published on, by
\* the registry or by clone.
MaxHandles == 2

\* Records pushed where termination is checked
MaxPushLive == 2

\* Thrust frames the control loop of the AUV controller sends per behaviour
MaxTx == 2

\* ---------------------------------------------------------------- inputs

\* Values pushed onto a RingBuffer<i32>.
Items == {11, 22}

\* A payload one byte longer than a slot can hold.
Oversize == [i \in 1..(MAX_PAYLOAD_SIZE + 1) |-> 205]

\* A payload that fills a slot exactly.
MaxPayload == [i \in 1..MAX_PAYLOAD_SIZE |-> 171]

\* Byte strings pushed onto a ByteRingBuffer.
Payloads == {<<1, 2, 3>>, <<9>>, Oversize}

\* Byte strings around the size limit: the empty one, a short one, the
\* longest one a slot holds, and one that is a byte too long.
BoundaryPayloads == {<<>>, <<1, 2, 3>>, MaxPayload, Oversize}

Kinds == {"typed", "byte"}

\* Topic names passed to the registry.
Names == {"a", "b"}

\* Element types T of get_or_create::<T>; a ByteTopic is tagged "bytes".
ElemTypes == {"i32", "f64"}

\* Capacity arguments of the registry lookups.
Caps == {0, 1, 2}

\* The capacity that is refused and the smallest one that is not.
SmallCaps == {0, 1}

\* A single topic name.
OneName == {"a"}

\* Threads that call the registry.
Threads == {1, 2}

Inputs(k) == IF k = "typed" THEN Items ELSE Payloads

\* ----------------------------------------------------------------- state

VARIABLES
    kind,         \* "typed": RingBuffer<i32>; "byte": ByteRingBuffer
    capacity,     \* self.capacity
    buffer,       \* self.buffer: slot index -> [len, data, epoch]
    head,         \* self.head
    tail,         \* self.tail
    write_epoch,  \* self.write_epoch
    read_epoch,   \* self.read_epoch
    done,         \* the producer thread's `done` flag
    concurrent,   \* producer and consumer run in two threads (else in one)
    inputs,       \* the values the producer thread passes to push
    \* producer thread
    pcP,          \* position inside push
    pItem,        \* argument of the push in flight
    pHead,        \* local `head`
    pEpoch,       \* local `new_epoch`
    pRes,         \* value returned by the last push: <<>> is None, <<e>> an epoch
    \* consumer thread
    pcC,          \* position inside pop / peek_latest
    cOp,          \* operation in flight or last completed
    cTail,        \* local `tail`
    cHead,        \* local `head`
    cRead,        \* local `read_epoch`
    cWrite,       \* local `write_epoch`
    cSlotEpoch,   \* local `slot_epoch`
    cPath,        \* branch taken after the slot-epoch load
    cLen,         \* local `len`
    cData,        \* payload read from the slot
    cEpoch,       \* local `epoch`
    cRes,         \* value returned by the last pop / peek: <<>> is None
    cAfterDone,   \* the operation was called after `done` was set
    cQuiet,       \* completed pushes if no push ran during the operation, else -1
    cReadAtCall,  \* read_epoch when the operation in flight was called
    \* history
    pushed,       \* arguments of the accepted pushes, in call order
    pushRet,      \* epochs returned by the completed pushes, in order
    popped,       \* records returned by the successful pops, in order
    gOver,        \* more than `capacity` records were unread at some push
    gDrain,       \* len() when the consumer began to pop after the last push, and
                  \* the records it has popped since; len -1: a push ran since
    gOldest       \* oldest unseen epoch a slot still held, by the snapshot of the
                  \* pop that returned last (0: none)

bufVars == <<kind, capacity, buffer, head, tail, write_epoch, read_epoch>>

prodVars == <<pcP, pItem, pHead, pEpoch, pRes>>

consVars == <<pcC, cOp, cTail, cHead, cRead, cWrite, cSlotEpoch, cPath, cLen,
              cData, cEpoch, cRes, cAfterDone, cQuiet, cReadAtCall>>

histVars == <<pushed, pushRet, popped, gOver, gDrain, gOldest>>

\* The pub/sub layer of src/pubsub: the registry, the topics it hands out
\* and a subscriber's cursor.
VARIABLES
    typed_topics,     \* TopicRegistry.typed_topics: name -> <<>> or <<topic>>
    byte_topics,      \* TopicRegistry.byte_topics: name -> <<>> or <<topic>>
    lockWriter,       \* per map: the thread holding the RwLock for writing, or 0
    poisoned,         \* per map: a thread panicked while holding the lock
    topics,           \* the Topic / ByteTopic objects: [name, ty, buf], with
                      \* the topic cloned from and the capacity asked for
    bufs,             \* the ring buffers the topics point to
    pcT,              \* per registry thread: position inside its call
    argT,             \* per registry thread: arguments of the call in flight
    first,            \* per (namespace, name, type): the topic the first
                      \* lookup returned, 0 before it
    replaced,         \* topics whose map entry was replaced
    lastRet,          \* what the call that returned last gave back
    names,            \* the names the callers of the registry use
    caps,             \* the capacities the callers of the registry ask for
    last_seen_epoch,  \* Subscriber.last_seen_epoch
    pcS,              \* the subscriber's thread: "idle", "has_new", "mark_seen"
    sCur,             \* has_new / mark_seen: current
    sRes,             \* what the last has_new returned
    sLen              \* len() of the buffer when the last has_new was called

regVars == <<typed_topics, byte_topics, lockWriter, poisoned, topics, bufs,
             pcT, argT, first, replaced, lastRet>>

\* The C ABI of src/ffi: the registry and the topic handles behind the raw
\* pointers a C caller holds.
VARIABLES
    regPtr,           \* the BibiRegistry of bibi_registry_new: "live", "freed"
    handles,          \* the BibiByteTopic / BibiTypedTopic boxes handed out:
                      \* [inner, msg_size, typed, live]
    strong,           \* per topic: the strong count of its Arc<ByteTopic>
    dropped,          \* topics whose ByteTopic was dropped, its buffer with it
    ffiRet            \* what the last call returned: [fn, status, data, epoch]

ffiVars == <<regPtr, handles, strong, dropped, ffiRet>>

\* The UART bridge of src/uart: the bytes on their way to the serial port,
\* the bridge's receive buffer and the topics it publishes the frames on.
VARIABLES
    wire,             \* bytes the peer has sent that no read has returned yet
    rx_buffer,        \* UartBridge.rx_buffer
    bridgeTopics,     \* the byte topics of the bridge's registry, by name:
                      \* <<>> or <<the topic's buffer>>
    pcU,              \* run_loop: "read" at port.read, "process" inside
                      \* process_buffer
    lastFrame,        \* what the last try_parse_frame returned: <<>> is None
    decoded           \* the frames decoded so far, in order, each with what
                      \* its publish returned

uartVars == <<wire, rx_buffer, bridgeTopics, pcU, lastFrame, decoded>>

\* The AUV controller of src/auv: the thread inside AuvController::run, the
\* flag and the command it shares with its callers, and the serial port.
VARIABLES
    running,          \* AuvController.running
    thrust_cmd,       \* AuvController.thrust_cmd, the six degrees of freedom
    pcRun,            \* run(): "idle" before the call, then the statement
                      \* the thread is at: "store", "open", "loop", "read",
                      \* "tick", "neutral"; "done" after the return,
                      \* "panicked" after the expect on the port
    tx,               \* the frames written to the port so far, in order
    stopAsked         \* shutdown() was called while run() was executing

auvVars == <<running, thrust_cmd, pcRun, tx, stopAsked>>

\* What no step of push, pop and peek_latest changes.
\* A Subscriber on the topic of the ring buffer, and the locals of its thread.
subVars == <<last_seen_epoch, pcS, sCur, sRes, sLen>>

\* What the callers of the registry choose their arguments from.
regInputs == <<names, caps>>

ringFrame == <<concurrent, inputs, subVars, regVars, regInputs, ffiVars,
              uartVars, auvVars>>

vars == <<bufVars, done, ringFrame, prodVars, consVars, histVars>>

\* ------------------------------------------------------ pure helpers

\* T::default() for i32, and [0u8; MAX_PAYLOAD_SIZE] for a byte slot.  The
\* byte array is kept as the prefix up to the last byte ever written; every
\* byte after that prefix is still the 0 of ByteSlot::new.
DefaultData(k) == IF k = "typed" THEN 0 ELSE <<>>

\* Slot::default / ByteSlot::new
NewSlot(k) == [len |-> 0, data |-> DefaultData(k), epoch |-> 0]

\* u64::saturating_sub
SaturatingSub(a, b) == IF a >= b THEN a - b ELSE 0

Min(a, b) == IF a <= b THEN a ELSE b

\* (index + 1) % self.capacity
NextIndex(i, c) == (i + 1) % c

\* new_epoch = self.write_epoch.load() + 1
NewEpochSkips(w) == w + 2

NewEpoch(w) == w + 1

\* write_epoch.saturating_sub(self.capacity as u64 - 1)
MinValidEpochOffByOne(w, c) == SaturatingSub(w, c - 2)

MinValidEpoch(w, c) == SaturatingSub(w, c - 1)

\* latest_idx = if head == 0 { capacity - 1 } else { head - 1 }
LatestIdxAtHead(h, c) == h

LatestIdx(h, c) == IF h = 0 THEN c - 1 ELSE h - 1

\* slot.data[..data.len()].copy_from_slice(data): the first Len(src) bytes
\* are replaced, the bytes after them are kept.
CopyFromSlice(old, src) ==
    [i \in 1..(IF Len(old) > Len(src) THEN Len(old) ELSE Len(src)) |->
        IF i <= Len(src) THEN src[i] ELSE old[i]]

\* slot.data[..len].to_vec()
SliceToStale(arr, n) == arr

SliceTo(arr, n) == [i \in 1..n |-> IF i <= Len(arr) THEN arr[i] ELSE 0]

\* len(): min(write_epoch.saturating_sub(read_epoch), capacity), 0 if never written
LenOfUncapped(w, r, c) == IF w = 0 THEN 0 ELSE SaturatingSub(w, r)

LenOf(w, r, c) == IF w = 0 THEN 0 ELSE Min(SaturatingSub(w, r), c)

BufLen == LenOf(write_epoch, read_epoch, capacity)

\* is_empty()
IsEmpty == BufLen = 0

\* is_full()
IsFull == BufLen = capacity

\* latest_epoch()
LatestEpoch == write_epoch

\* ------------------------------------------------------------ Init

NoDrain == [len |-> -1, got |-> 0]

\* Accepted pushes the producer makes at most.
PushLimit ==
    IF concurrent THEN MaxPushConc
    ELSE IF inputs = BoundaryPayloads THEN MaxPushBoundary
    ELSE MaxPush

\* In one thread an operation is called only when none is in flight.
ProducerMayCall == concurrent \/ pcC = "idle"

ConsumerMayCall == concurrent \/ pcP = "idle"

NoArgs == [op |-> "none", ns |-> "none", name |-> "none", ty |-> "none",
           cap |-> 0, n |-> 0, lo |-> 0]

NoRet == [op |-> "none", val |-> <<>>]



\* TopicRegistry::new, no topic made yet, every thread before its first call.
InitRegistry ==
    /\ typed_topics = [nm \in Names |-> <<>>]
    /\ byte_topics = [nm \in Names |-> <<>>]
    /\ lockWriter = [ns \in Kinds |-> 0]
    /\ poisoned = [ns \in Kinds |-> FALSE]
    /\ topics = <<>>
    /\ bufs = <<>>
    /\ pcT = [t \in Threads |-> "idle"]
    /\ argT = [t \in Threads |-> NoArgs]
    /\ first = [ns \in Kinds, nm \in Names, ty \in ElemTypes \cup {"bytes"} |-> 0]
    /\ replaced = {}
    /\ lastRet = NoRet

\* src/uart/mod.rs: SYNC_BYTE, MAX_MSG_SIZE, and the capacity publish_frame
\* asks the registry for
SYNC_BYTE == 170

MAX_MSG_SIZE == 244

BRIDGE_TOPIC_CAPACITY == 32

\* enum MsgType
MsgTypes == {"Imu", "Depth", "Thruster", "Heartbeat", "Command", "Ack"}

\* MsgType::to_topic_name
ToTopicName(t) ==
    CASE t = "Imu" -> "/stm32/imu"
      [] t = "Depth" -> "/stm32/depth"
      [] t = "Thruster" -> "/stm32/thruster"
      [] t = "Heartbeat" -> "/stm32/heartbeat"
      [] t = "Command" -> "/stm32/command"
      [] t = "Ack" -> "/stm32/ack"

TopicNames == {ToTopicName(t) : t \in MsgTypes}

\* UartBridge::new: an open port, an empty rx_buffer, a registry with no
\* topic; w is what the peer sends.
InitBridge(w) ==
    /\ wire = w
    /\ rx_buffer = <<>>
    /\ bridgeTopics = [nm \in TopicNames |-> <<>>]
    /\ pcU = "read"
    /\ lastFrame = <<>>
    /\ decoded = <<>>

NoFfiRet == [fn |-> "none", status |-> 0, data |-> <<>>, epoch |-> 0]

\* bibi_registry_new: a live registry, no handle given out yet.
InitFfi ==
    /\ regPtr = "live"
    /\ handles = <<>>
    /\ strong = <<>>
    /\ dropped = {}
    /\ ffiRet = NoFfiRet

\* ThrustCommand::default(): no thrust on any degree of freedom.
NoThrust == <<0, 0, 0, 0, 0, 0>>

\* AuvController::new: not running, the default command, run() not called.
InitAuv ==
    /\ running = FALSE
    /\ thrust_cmd = NoThrust
    /\ pcRun = "idle"
    /\ tx = <<>>
    /\ stopAsked = FALSE

\* The buffer, the registry and the C ABI after construction.
InitCore(conc) ==
    /\ kind \in Kinds
    /\ capacity \in 1..MaxCap
    /\ inputs \in IF conc \/ kind = "typed" THEN {Inputs(kind)}
                  ELSE {Inputs(kind), BoundaryPayloads}
    /\ buffer = [i \in 0..(capacity - 1) |-> NewSlot(kind)]
    /\ head = 0
    /\ tail = 0
    /\ write_epoch = 0
    /\ read_epoch = 0
    /\ done = FALSE
    /\ concurrent = conc
    /\ pcP = "idle"
    /\ pItem = DefaultData(kind)
    /\ pHead = 0
    /\ pEpoch = 0
    /\ pRes = <<>>
    /\ pcC = "idle"
    /\ cOp = "none"
    /\ cTail = 0
    /\ cHead = 0
    /\ cRead = 0
    /\ cWrite = 0
    /\ cSlotEpoch = 0
    /\ cPath = "none"
    /\ cLen = 0
    /\ cData = DefaultData(kind)
    /\ cEpoch = 0
    /\ cRes = <<>>
    /\ cAfterDone = FALSE
    /\ cQuiet = -1
    /\ cReadAtCall = 0
    /\ pushed = <<>>
    /\ pushRet = <<>>
    /\ popped = <<>>
    /\ gOver = FALSE
    /\ gDrain = NoDrain
    /\ gOldest = 0
    /\ last_seen_epoch = 0
    /\ pcS = "idle"
    /\ sCur = 0
    /\ sRes = <<>>
    /\ sLen = 0
    /\ InitRegistry
    /\ InitFfi
    /\ InitAuv

\* The same with a bridge whose peer sends nothing.
InitRing(conc) == InitCore(conc) /\ InitBridge(<<>>)

\* The buffer and the registry after construction, the registry's callers
\* with all their names and capacities.
InitWith(conc) ==
    /\ InitRing(conc)
    /\ names = Names
    /\ caps = Caps

\* ------------------------------------------------------------ push

\* ByteRingBuffer::push, data.len() > MAX_PAYLOAD_SIZE: return None.  pItem
\* keeps the rejected argument until the next push is called.
PushRejectBurnsEpoch ==
    /\ pcP = "idle"
    /\ ProducerMayCall
    /\ ~done
    /\ kind = "byte"
    /\ \E item \in inputs :
          /\ Len(item) > MAX_PAYLOAD_SIZE
          /\ pItem' = item
          /\ pRes' = <<>>
    /\ write_epoch' = NewEpoch(write_epoch)
    /\ UNCHANGED <<kind, capacity, buffer, head, tail, read_epoch, done,
                   ringFrame, pcP, pHead, pEpoch, consVars, histVars>>

PushReject ==
    /\ pcP = "idle"
    /\ ProducerMayCall
    /\ ~done
    /\ kind = "byte"
    /\ \E item \in inputs :
          /\ Len(item) > MAX_PAYLOAD_SIZE
          /\ pItem' = item
          /\ pRes' = <<>>
    /\ UNCHANGED <<bufVars, done, ringFrame, pcP, pHead, pEpoch,
                   consVars, histVars>>

\* push: head load, write_epoch load, write_epoch store.
PushWriteEpoch ==
    /\ pcP = "idle"
    /\ ProducerMayCall
    /\ ~done
    /\ Len(pushed) < PushLimit
    /\ \E item \in inputs :
          /\ kind = "byte" => Len(item) <= MAX_PAYLOAD_SIZE
          /\ pItem' = item
          /\ pushed' = Append(pushed, item)
    /\ pHead' = head
    /\ pEpoch' = NewEpoch(write_epoch)
    /\ write_epoch' = NewEpoch(write_epoch)
    /\ gOver' = (gOver \/ NewEpoch(write_epoch) - read_epoch > capacity)
    /\ gDrain' = NoDrain
    /\ pcP' = IF kind = "byte" THEN "len" ELSE "data"
    /\ UNCHANGED <<kind, capacity, buffer, head, tail, read_epoch, done,
                   ringFrame, pRes, consVars, pushRet, popped, gOldest>>

\* ByteRingBuffer::push: slot.len = data.len() as u32
PushLen ==
    /\ pcP = "len"
    /\ buffer' = [buffer EXCEPT ![pHead].len = Len(pItem)]
    /\ pcP' = "data"
    /\ UNCHANGED <<kind, capacity, head, tail, write_epoch, read_epoch, done,
                   ringFrame, pItem, pHead, pEpoch, pRes, consVars, histVars>>

\* push: slot.data = item / slot.data[..data.len()].copy_from_slice(data)
PushData ==
    /\ pcP = "data"
    /\ buffer' = [buffer EXCEPT ![pHead].data =
                     IF kind = "typed" THEN pItem ELSE CopyFromSlice(@, pItem)]
    /\ pcP' = "epoch"
    /\ UNCHANGED <<kind, capacity, head, tail, write_epoch, read_epoch, done,
                   ringFrame, pItem, pHead, pEpoch, pRes, consVars, histVars>>

\* push: slot.epoch.store(new_epoch)
PushSlotEpochStale ==
    /\ pcP = "epoch"
    /\ buffer' = [buffer EXCEPT ![pHead].epoch = pEpoch - 1]
    /\ pcP' = "head"
    /\ UNCHANGED <<kind, capacity, head, tail, write_epoch, read_epoch, done,
                   ringFrame, pItem, pHead, pEpoch, pRes, consVars, histVars>>

PushSlotEpoch ==
    /\ pcP = "epoch"
    /\ buffer' = [buffer EXCEPT ![pHead].epoch = pEpoch]
    /\ pcP' = "head"
    /\ UNCHANGED <<kind, capacity, head, tail, write_epoch, read_epoch, done,
                   ringFrame, pItem, pHead, pEpoch, pRes, consVars, histVars>>

\* push: self.head.store((head + 1) % capacity); return new_epoch
PushHeadMovesTail ==
    /\ pcP = "head"
    /\ head' = NextIndex(pHead, capacity)
    /\ tail' = IF pEpoch - read_epoch > capacity
               THEN NextIndex(tail, capacity)
               ELSE tail
    /\ pRes' = <<pEpoch>>
    /\ pushRet' = Append(pushRet, pEpoch)
    /\ pcP' = "idle"
    /\ pItem' = DefaultData(kind)
    /\ pHead' = 0
    /\ pEpoch' = 0
    /\ UNCHANGED <<kind, capacity, buffer, write_epoch, read_epoch, done,
                   ringFrame, consVars, pushed, popped, gOver, gDrain, gOldest>>

PushHead ==
    /\ pcP = "head"
    /\ head' = NextIndex(pHead, capacity)
    /\ pRes' = <<pEpoch>>
    /\ pushRet' = Append(pushRet, pEpoch)
    /\ pcP' = "idle"
    /\ pItem' = DefaultData(kind)
    /\ pHead' = 0
    /\ pEpoch' = 0
    /\ UNCHANGED <<kind, capacity, buffer, tail, write_epoch, read_epoch, done,
                   ringFrame, consVars, pushed, popped, gOver, gDrain, gOldest>>

\* The producer thread after its last push: done_flag.store(true).
ProducerDone ==
    /\ pcP = "idle"
    /\ ~done
    /\ done' = TRUE
    /\ UNCHANGED <<bufVars, ringFrame, prodVars, consVars, histVars>>

Producer ==
    \/ PushReject
    \/ PushWriteEpoch
    \/ PushLen
    \/ PushData
    \/ PushSlotEpoch
    \/ PushHead
    \/ ProducerDone

\* ------------------------------------------------------------- pop

\* The slot's bytes with the producer's copy_from_slice(src) done up to byte k.
TornCopy(old, src, k) ==
    [i \in 1..(IF Len(old) > Len(src) THEN Len(old) ELSE Len(src)) |->
        IF i <= k /\ i <= Len(src) THEN src[i]
        ELSE IF i <= Len(old) THEN old[i]
        ELSE 0]

\* What a read of slot i's payload can see.  The slot is an UnsafeCell and the
\* read is not synchronised with push: a read made while the producer is
\* copying into the same ByteSlotInner races with the copy and sees it done
\* up to any byte.
SlotDataSeen(i) ==
    IF kind = "byte" /\ pcP = "data" /\ pHead = i
    THEN {TornCopy(buffer[i].data, pItem, k) : k \in 0..Len(pItem)}
    ELSE {buffer[i].data}

SetMin(S) == CHOOSE x \in S : \A y \in S : x <= y

\* The smallest epoch above r that a slot of buf holds and that is not older
\* than w - (c - 1); 0 if there is none.
OldestUnseen(buf, r, w, c) ==
    LET held == {e \in {buf[i].epoch : i \in DOMAIN buf} :
                    e > r /\ e >= w - (c - 1)}
    IN  IF held = {} THEN 0 ELSE SetMin(held)

\* No push ran between the call of the operation in flight and now.
NoPushSinceCall == pcP = "idle" /\ cQuiet = Len(pushRet)

\* The consumer thread calls an operation.
ConsCall(op) ==
    /\ cOp' = op
    /\ cRes' = <<>>
    /\ cAfterDone' = done
    /\ cQuiet' = IF pcP = "idle" THEN Len(pushRet) ELSE -1
    /\ cReadAtCall' = read_epoch

\* The operation in flight returns res.
ConsReturn(res) ==
    /\ pcC' = "idle"
    /\ cRes' = res
    /\ cQuiet' = IF NoPushSinceCall THEN cQuiet ELSE -1
    /\ cReadAtCall' = 0
    /\ cTail' = 0
    /\ cHead' = 0
    /\ cRead' = 0
    /\ cWrite' = 0
    /\ cSlotEpoch' = 0
    /\ cPath' = "none"
    /\ cLen' = 0
    /\ cData' = DefaultData(kind)
    /\ cEpoch' = 0
    /\ UNCHANGED <<cOp, cAfterDone>>

\* The consumer calls pop with no push in flight, for the first time since
\* the last push: the drain starts with len() records announced.
DrainAtCall ==
    IF pcP = "idle" /\ gDrain.len = -1
    THEN [len |-> BufLen, got |-> 0]
    ELSE gDrain

\* pop, top of the loop: let tail = self.tail.load(); let head =
\* self.head.load().  Only the consumer writes tail, so its load is folded
\* into the head load.
PopLoadHead ==
    /\ pcC \in {"idle", "loop"}
    /\ pcC = "idle" => ConsumerMayCall
    /\ cTail' = tail
    /\ cHead' = head
    /\ pcC' = "we"
    /\ IF pcC = "idle"
       THEN /\ ConsCall("pop")
            /\ gDrain' = DrainAtCall
            /\ gOldest' = 0
       ELSE UNCHANGED <<cOp, cRes, cAfterDone, cQuiet, cReadAtCall, gDrain, gOldest>>
    /\ UNCHANGED <<bufVars, done, ringFrame, prodVars, cRead, cWrite,
                   cSlotEpoch, cPath, cLen, cData, cEpoch, pushed, pushRet,
                   popped, gOver>>

\* pop: let read_epoch = self.read_epoch.load(); let write_epoch =
\* self.write_epoch.load(); if write_epoch == 0 { return None }.  Only the
\* consumer writes read_epoch, so its load is folded into this one.
PopLoadWriteEpoch ==
    /\ pcC = "we"
    /\ IF write_epoch = 0
       THEN ConsReturn(<<>>)
       ELSE /\ cRead' = read_epoch
            /\ cWrite' = write_epoch
            /\ pcC' = "se"
            /\ UNCHANGED <<cOp, cTail, cHead, cSlotEpoch, cPath, cLen,
                           cData, cEpoch, cRes, cAfterDone, cQuiet, cReadAtCall>>
    /\ UNCHANGED <<bufVars, done, ringFrame, prodVars, histVars>>

\* if slot_epoch <= read_epoch
IsConsumedStrict(se, r) == se < r

IsConsumed(se, r) == se <= r

\* if slot_epoch < min_valid_epoch
IsOverwritten(se, w, c) == se < MinValidEpoch(w, c)

\* pop: let slot_epoch = self.slot_epoch(tail), and the branch on it:
\* already consumed (return None when tail == head, else advance tail),
\* overwritten (skip), or valid (read the slot).
PopLoadSlotEpoch ==
    /\ pcC = "se"
    /\ LET se == buffer[cTail].epoch IN
       IF IsConsumed(se, cRead) /\ cTail = cHead
       THEN ConsReturn(<<>>)
       ELSE /\ cSlotEpoch' = se
            /\ cPath' = IF IsConsumed(se, cRead) THEN "consumed"
                        ELSE IF IsOverwritten(se, cWrite, capacity) THEN "skip"
                        ELSE "valid"
            /\ pcC' = IF IsConsumed(se, cRead) THEN "stail"
                      ELSE IF IsOverwritten(se, cWrite, capacity) THEN "sre"
                      ELSE IF kind = "byte" THEN "len"
                      ELSE "data"
            /\ UNCHANGED <<cOp, cTail, cHead, cRead, cWrite, cLen, cData,
                           cEpoch, cRes, cAfterDone, cQuiet, cReadAtCall>>
    /\ UNCHANGED <<bufVars, done, ringFrame, prodVars, histVars>>

\* ByteRingBuffer::pop: let len = slot.len as usize
PopReadLen ==
    /\ pcC = "len"
    /\ cLen' = buffer[cTail].len
    /\ pcC' = "data"
    /\ UNCHANGED <<bufVars, done, ringFrame, prodVars, cOp, cTail, cHead,
                   cRead, cWrite, cSlotEpoch, cPath, cData, cEpoch, cRes,
                   cAfterDone, cQuiet, cReadAtCall, histVars>>

\* pop: slot.data.clone() / slot.data[..len].to_vec().  RingBuffer::pop
\* marks and reports the epoch it loaded before the read.
PopReadData ==
    /\ pcC = "data"
    /\ \E d \in SlotDataSeen(cTail) :
          cData' = IF kind = "typed" THEN d ELSE SliceTo(d, cLen)
    /\ cEpoch' = IF kind = "typed" THEN cSlotEpoch ELSE cEpoch
    /\ pcC' = IF kind = "typed" THEN "sre" ELSE "ep"
    /\ UNCHANGED <<bufVars, done, ringFrame, prodVars, cOp, cTail, cHead,
                   cRead, cWrite, cSlotEpoch, cPath, cLen, cRes, cAfterDone,
                   cQuiet, cReadAtCall, histVars>>

\* ByteRingBuffer::pop: slot.epoch.load(), a second load after the copy
PopReloadEpoch ==
    /\ pcC = "ep"
    /\ cEpoch' = buffer[cTail].epoch
    /\ pcC' = "sre"
    /\ UNCHANGED <<bufVars, done, ringFrame, prodVars, cOp, cTail, cHead,
                   cRead, cWrite, cSlotEpoch, cPath, cLen, cData, cRes,
                   cAfterDone, cQuiet, cReadAtCall, histVars>>

\* pop: self.read_epoch.store(slot_epoch) on the skip path and in
\* RingBuffer::pop, self.read_epoch.store(epoch) in ByteRingBuffer::pop
PopStoreWriteEpoch ==
    /\ pcC = "sre"
    /\ write_epoch' = IF cPath = "skip" THEN cSlotEpoch ELSE cEpoch
    /\ pcC' = "stail"
    /\ UNCHANGED <<kind, capacity, buffer, head, tail, read_epoch, done,
                   ringFrame, prodVars, cOp, cTail, cHead, cRead, cWrite,
                   cSlotEpoch, cPath, cLen, cData, cEpoch, cRes, cAfterDone,
                   cQuiet, cReadAtCall, histVars>>

PopStoreReadEpochFirstLoad ==
    /\ pcC = "sre"
    /\ read_epoch' = cSlotEpoch
    /\ pcC' = "stail"
    /\ UNCHANGED <<kind, capacity, buffer, head, tail, write_epoch, done,
                   ringFrame, prodVars, cOp, cTail, cHead, cRead, cWrite,
                   cSlotEpoch, cPath, cLen, cData, cEpoch, cRes, cAfterDone,
                   cQuiet, cReadAtCall, histVars>>

PopStoreReadEpoch ==
    /\ pcC = "sre"
    /\ read_epoch' = IF cPath = "skip" THEN cSlotEpoch ELSE cEpoch
    /\ pcC' = "stail"
    /\ UNCHANGED <<kind, capacity, buffer, head, tail, write_epoch, done,
                   ringFrame, prodVars, cOp, cTail, cHead, cRead, cWrite,
                   cSlotEpoch, cPath, cLen, cData, cEpoch, cRes, cAfterDone,
                   cQuiet, cReadAtCall, histVars>>

\* pop: self.tail.store((tail + 1) % capacity), then `continue` on the
\* consumed and skip paths and `return Some(..)` on the valid path.
PopStoreTailStays ==
    /\ pcC = "stail"
    /\ tail' = cTail
    /\ IF cPath = "valid"
       THEN /\ ConsReturn(<<[val |-> cData, epoch |-> cEpoch]>>)
            /\ popped' = Append(popped, [val |-> cData, epoch |-> cEpoch])
            /\ gOldest' = OldestUnseen(buffer, cRead, cWrite, capacity)
            /\ gDrain' = IF gDrain.len >= 0
                          THEN [gDrain EXCEPT !.got = @ + 1]
                          ELSE gDrain
       ELSE /\ pcC' = "loop"
            /\ cHead' = 0
            /\ cRead' = 0
            /\ cWrite' = 0
            /\ cSlotEpoch' = 0
            /\ cPath' = "none"
            /\ UNCHANGED <<cOp, cTail, cLen, cData, cEpoch, cRes, cAfterDone,
                           cQuiet, cReadAtCall, popped, gOldest, gDrain>>
    /\ UNCHANGED <<kind, capacity, buffer, head, write_epoch, read_epoch,
                   done, ringFrame, prodVars, pushed, pushRet, gOver>>

PopStoreTail ==
    /\ pcC = "stail"
    /\ tail' = NextIndex(cTail, capacity)
    /\ IF cPath = "valid"
       THEN /\ ConsReturn(<<[val |-> cData, epoch |-> cEpoch]>>)
            /\ popped' = Append(popped, [val |-> cData, epoch |-> cEpoch])
            /\ gOldest' = OldestUnseen(buffer, cRead, cWrite, capacity)
            /\ gDrain' = IF gDrain.len >= 0
                          THEN [gDrain EXCEPT !.got = @ + 1]
                          ELSE gDrain
       ELSE /\ pcC' = "loop"
            /\ cHead' = 0
            /\ cRead' = 0
            /\ cWrite' = 0
            /\ cSlotEpoch' = 0
            /\ cPath' = "none"
            /\ UNCHANGED <<cOp, cTail, cLen, cData, cEpoch, cRes, cAfterDone,
                           cQuiet, cReadAtCall, popped, gOldest, gDrain>>
    /\ UNCHANGED <<kind, capacity, buffer, head, write_epoch, read_epoch,
                   done, ringFrame, prodVars, pushed, pushRet, gOver>>

Pop ==
    \/ PopLoadHead
    \/ PopLoadWriteEpoch
    \/ PopLoadSlotEpoch
    \/ PopReadLen
    \/ PopReadData
    \/ PopReloadEpoch
    \/ PopStoreReadEpoch
    \/ PopStoreTail

\* ----------------------------------------------------- peek_latest

\* peek_latest and peek_latest_ref make the same loads in the same order;
\* the first returns a copy of the payload, the second a borrow that is
\* read when the call returns.  One set of actions models both.

\* peek_latest: write_epoch load; if write_epoch == 0 { return None }
PeekLoadWriteEpoch ==
    /\ pcC = "idle"
    /\ ConsumerMayCall
    /\ ConsCall("peek_latest")
    /\ gOldest' = 0
    /\ IF write_epoch = 0
       THEN UNCHANGED <<pcC, cWrite>>
       ELSE /\ cWrite' = write_epoch
            /\ pcC' = "khead"
    /\ UNCHANGED <<bufVars, done, ringFrame, prodVars, cTail, cHead, cRead,
                   cSlotEpoch, cPath, cLen, cData, cEpoch, pushed, pushRet,
                   popped, gOver, gDrain>>

\* peek_latest: head load and latest_idx (kept in cTail)
PeekLoadHead ==
    /\ pcC = "khead"
    /\ cHead' = head
    /\ cTail' = LatestIdx(head, capacity)
    /\ pcC' = IF kind = "byte" THEN "klen" ELSE "kep"
    /\ UNCHANGED <<bufVars, done, ringFrame, prodVars, cOp, cRead, cWrite,
                   cSlotEpoch, cPath, cLen, cData, cEpoch, cRes, cAfterDone,
                   cQuiet, cReadAtCall, histVars>>

\* ByteRingBuffer::peek_latest: let len = slot.len as usize
PeekReadLen ==
    /\ pcC = "klen"
    /\ cLen' = buffer[cTail].len
    /\ pcC' = "kep"
    /\ UNCHANGED <<bufVars, done, ringFrame, prodVars, cOp, cTail, cHead,
                   cRead, cWrite, cSlotEpoch, cPath, cData, cEpoch, cRes,
                   cAfterDone, cQuiet, cReadAtCall, histVars>>

\* peek_latest: let epoch = slot.epoch.load()
PeekReadEpoch ==
    /\ pcC = "kep"
    /\ cEpoch' = buffer[cTail].epoch
    /\ pcC' = "kdata"
    /\ UNCHANGED <<bufVars, done, ringFrame, prodVars, cOp, cTail, cHead,
                   cRead, cWrite, cSlotEpoch, cPath, cLen, cData, cRes,
                   cAfterDone, cQuiet, cReadAtCall, histVars>>

\* peek_latest: Some((slot.data.clone(), epoch)) / Some((slot.data[..len].to_vec(), epoch))
PeekReadDataConsuming ==
    /\ pcC = "kdata"
    /\ \E d \in SlotDataSeen(cTail) :
          ConsReturn(<<[val |-> IF kind = "typed" THEN d ELSE SliceTo(d, cLen),
                        epoch |-> cEpoch]>>)
    /\ read_epoch' = cEpoch
    /\ UNCHANGED <<kind, capacity, buffer, head, tail, write_epoch, done,
                   ringFrame, prodVars, histVars>>

PeekReadData ==
    /\ pcC = "kdata"
    /\ \E d \in SlotDataSeen(cTail) :
          ConsReturn(<<[val |-> IF kind = "typed" THEN d ELSE SliceTo(d, cLen),
                        epoch |-> cEpoch]>>)
    /\ UNCHANGED <<bufVars, done, ringFrame, prodVars, histVars>>

PeekLatest ==
    \/ PeekLoadWriteEpoch
    \/ PeekLoadHead
    \/ PeekReadLen
    \/ PeekReadEpoch
    \/ PeekReadData

Consumer == Pop \/ PeekLatest

\* ------------------------------------------- ring buffer as a value

\* RingBuffer::new / ByteRingBuffer::new: assert!(capacity > 0, ...)
CapacityOkAlways(c) == TRUE

CapacityOk(c) == c > 0

\* RingBuffer::new / ByteRingBuffer::new past the assertion
NewBuffer(k, c) ==
    [kind |-> k, capacity |-> c,
     buffer |-> [i \in 0..(c - 1) |-> NewSlot(k)],
     head |-> 0, tail |-> 0, write_epoch |-> 0, read_epoch |-> 0]

\* push run from call to return on the buffer b: the buffer afterwards and
\* the value returned (<<>> for the None of an oversize byte payload).
PushOnto(b, item) ==
    IF b.kind = "byte" /\ Len(item) > MAX_PAYLOAD_SIZE
    THEN [buf |-> b, ret |-> <<>>]
    ELSE LET e == NewEpoch(b.write_epoch)
             old == b.buffer[b.head]
             slot == IF b.kind = "byte"
                     THEN [len |-> Len(item),
                           data |-> CopyFromSlice(old.data, item),
                           epoch |-> e]
                     ELSE [len |-> old.len, data |-> item, epoch |-> e]
         IN  [buf |-> [b EXCEPT !.write_epoch = e,
                                !.buffer[b.head] = slot,
                                !.head = NextIndex(b.head, b.capacity)],
              ret |-> <<e>>]

\* pop run from call to return on the buffer b: the retry loop as a
\* recursion, one unfolding per iteration.
RECURSIVE PopFrom(_)
PopFrom(b) ==
    IF b.write_epoch = 0
    THEN [buf |-> b, ret |-> <<>>]
    ELSE LET se == b.buffer[b.tail].epoch
             next == NextIndex(b.tail, b.capacity)
         IN  IF IsConsumed(se, b.read_epoch)
             THEN IF b.tail = b.head
                  THEN [buf |-> b, ret |-> <<>>]
                  ELSE PopFrom([b EXCEPT !.tail = next])
             ELSE IF IsOverwritten(se, b.write_epoch, b.capacity)
             THEN PopFrom([b EXCEPT !.read_epoch = se, !.tail = next])
             ELSE [buf |-> [b EXCEPT !.read_epoch = se, !.tail = next],
                   ret |-> <<[val |-> IF b.kind = "byte"
                                      THEN SliceTo(b.buffer[b.tail].data,
                                                   b.buffer[b.tail].len)
                                      ELSE b.buffer[b.tail].data,
                              epoch |-> se]>>]

\* The buffer the ring-buffer threads work on, as a value.
ThisBuffer ==
    [kind |-> kind, capacity |-> capacity, buffer |-> buffer, head |-> head,
     tail |-> tail, write_epoch |-> write_epoch, read_epoch |-> read_epoch]

\* peek_oldest_ref run from call to return on the buffer b: None when nothing
\* was written or the slot at tail is consumed, else the slot at tail as it is.
PeekOldestOf(b) ==
    IF b.write_epoch = 0
    THEN <<>>
    ELSE IF IsConsumed(b.buffer[b.tail].epoch, b.read_epoch)
    THEN <<>>
    ELSE <<[val |-> IF b.kind = "byte"
                    THEN SliceTo(b.buffer[b.tail].data, b.buffer[b.tail].len)
                    ELSE b.buffer[b.tail].data,
            epoch |-> b.buffer[b.tail].epoch]>>

\* The consumer calls peek_oldest_ref with no push in flight; the call
\* returns before the producer's next step.
PeekOldestRef ==
    /\ pcC = "idle"
    /\ pcP = "idle"
    /\ cOp' = "peek_oldest_ref"
    /\ cRes' = PeekOldestOf(ThisBuffer)
    /\ cAfterDone' = done
    /\ cQuiet' = Len(pushRet)
    /\ gOldest' = 0
    /\ UNCHANGED <<bufVars, done, ringFrame, prodVars, pcC, cTail, cHead,
                   cRead, cWrite, cSlotEpoch, cPath, cLen, cData, cEpoch,
                   cReadAtCall, pushed, pushRet, popped, gOver, gDrain>>

\* ---------------------------------------------------------- registry

\* Everything outside the registry and its topics.
ffiFrame == <<bufVars, done, concurrent, inputs, prodVars, consVars, histVars,
              subVars, regInputs, uartVars, auvVars>>

regFrame == <<ffiFrame, ffiVars>>

\* The map of a namespace.
MapOf(ns) == IF ns = "typed" THEN typed_topics ELSE byte_topics

\* HashMap::len
MapLen(m) == Cardinality({nm \in Names : m[nm] # <<>>})

\* topic_count: typed + bytes
CountSumTypedOnly(typed, bytes) == typed

CountSum(typed, bytes) == typed + bytes

\* Lookups called and not yet returned or panicked.
InFlight ==
    Cardinality({t \in Threads : pcT[t] \in {"call", "lookup", "create"}})

\* No registry lookup is between its call and its return.
NoLookupInFlight == InFlight = 0

\* self.<map>.write(): the call blocks while another thread holds the lock.
LockFreeIgnored(ns) == TRUE

LockFree(ns) == lockWriter[ns] = 0

\* A thread calls get_or_create::<ty>(nm, c) or get_or_create_byte(nm, c).
LookupCall(t) ==
    /\ pcT[t] = "idle"
    /\ Len(topics) + InFlight < MaxTopics
    /\ \E ns \in Kinds, nm \in names, c \in caps,
          ty \in ElemTypes \cup {"bytes"} :
          /\ (ns = "byte") <=> (ty = "bytes")
          /\ pcT' = [pcT EXCEPT ![t] = "call"]
          /\ argT' = [argT EXCEPT ![t] =
                        [NoArgs EXCEPT !.op = "lookup", !.ns = ns,
                                       !.name = nm, !.ty = ty, !.cap = c]]
    /\ UNCHANGED <<typed_topics, byte_topics, lockWriter, poisoned, topics,
                   bufs, first, replaced, lastRet, regFrame>>

\* get_or_create / get_or_create_byte: self.<map>.write().unwrap().  The
\* thread panics when the lock is poisoned.
LookupLock(t) ==
    /\ pcT[t] = "call"
    /\ LockFree(argT[t].ns)
    /\ IF poisoned[argT[t].ns]
       THEN /\ pcT' = [pcT EXCEPT ![t] = "panicked"]
            /\ argT' = [argT EXCEPT ![t] = NoArgs]
            /\ UNCHANGED lockWriter
       ELSE /\ pcT' = [pcT EXCEPT ![t] = "lookup"]
            /\ lockWriter' = [lockWriter EXCEPT ![argT[t].ns] = t]
            /\ UNCHANGED argT
    /\ UNCHANGED <<typed_topics, byte_topics, poisoned, topics, bufs, first,
                   replaced, lastRet, regFrame>>

\* A lookup of the key (ns, nm, ty) hands the topic h to its caller.
Returns(ns, nm, ty, h) ==
    /\ lastRet' = [op |-> "lookup", val |-> <<h>>]
    /\ first' = IF first[ns, nm, ty] = 0
                THEN [first EXCEPT ![ns, nm, ty] = h]
                ELSE first

\* The lookup of thread t returns the topic h and drops the write guard.
LookupReturn(t, h) ==
    /\ pcT' = [pcT EXCEPT ![t] = "idle"]
    /\ lockWriter' = [lockWriter EXCEPT ![argT[t].ns] = 0]
    /\ Returns(argT[t].ns, argT[t].name, argT[t].ty, h)
    /\ argT' = [argT EXCEPT ![t] = NoArgs]

\* existing.clone().downcast::<Topic<T>>().ok() succeeds when the entry was
\* made for the element type T; a byte entry is always an Arc<ByteTopic>.
DowncastsAlways(h, ty) == TRUE

Downcasts(h, ty) == topics[h].ty = ty

\* if let Some(existing) = topics.get(name) { if let Ok(topic) = downcast
\* ... }: there is an entry under the name and, in the typed map, it has the
\* element type asked for.
FoundNever(ns, nm, ty) == FALSE

Found(ns, nm, ty) ==
    /\ MapOf(ns)[nm] # <<>>
    /\ ns = "typed" => Downcasts(MapOf(ns)[nm][1], ty)

\* The lookup returns the entry it found, or goes on to make a topic.
LookupFind(t) ==
    /\ pcT[t] = "lookup"
    /\ IF Found(argT[t].ns, argT[t].name, argT[t].ty)
       THEN LookupReturn(t, MapOf(argT[t].ns)[argT[t].name][1])
       ELSE /\ pcT' = [pcT EXCEPT ![t] = "create"]
            /\ UNCHANGED <<lockWriter, lastRet, first, argT>>
    /\ UNCHANGED <<typed_topics, byte_topics, poisoned, topics, bufs,
                   replaced, regFrame>>

\* topics.insert(name, topic): the entry under the name is replaced.
Insert(m, nm, h) == [m EXCEPT ![nm] = <<h>>]

\* Arc::new(Topic::new(name, capacity)); topics.insert(name, topic): a new
\* topic on a new buffer takes the place of the entry under the name.
Creates(ns, nm, ty, c) ==
    LET h == Len(topics) + 1
        old == MapOf(ns)[nm]
    IN  /\ bufs' = Append(bufs, NewBuffer(ns, c))
        /\ topics' = Append(topics, [name |-> nm, ty |-> ty,
                                     buf |-> Len(bufs) + 1, origin |-> 0,
                                     cap |-> c])
        /\ IF ns = "typed"
           THEN /\ typed_topics' = Insert(typed_topics, nm, h)
                /\ UNCHANGED byte_topics
           ELSE /\ byte_topics' = Insert(byte_topics, nm, h)
                /\ UNCHANGED typed_topics
        /\ replaced' = IF old = <<>> THEN replaced ELSE replaced \cup {old[1]}

\* let topic = Arc::new(Topic::new(name, capacity)); ...; topic.
\* RingBuffer::new asserts capacity > 0: with capacity 0 the thread panics
\* while it holds the write guard, which poisons the lock.
LookupCreate(t) ==
    /\ pcT[t] = "create"
    /\ LET a == argT[t] IN
       IF ~CapacityOk(a.cap)
       THEN /\ pcT' = [pcT EXCEPT ![t] = "panicked"]
            /\ poisoned' = [poisoned EXCEPT ![a.ns] = TRUE]
            /\ lockWriter' = [lockWriter EXCEPT ![a.ns] = 0]
            /\ argT' = [argT EXCEPT ![t] = NoArgs]
            /\ UNCHANGED <<typed_topics, byte_topics, topics, bufs, first,
                           replaced, lastRet>>
       ELSE /\ Creates(a.ns, a.name, a.ty, a.cap)
            /\ LookupReturn(t, Len(topics) + 1)
            /\ UNCHANGED poisoned
    /\ UNCHANGED regFrame

\* get_or_create / get_or_create_byte from call to return, for a caller no
\* other registry call overlaps with.  The capacity argument is read only
\* when a topic is made.
GetOrCreateOf(t, ns, nm, ty) ==
    /\ pcT[t] = "idle"
    /\ NoLookupInFlight
    /\ (ns = "byte") <=> (ty = "bytes")
    /\ IF poisoned[ns]
       THEN /\ pcT' = [pcT EXCEPT ![t] = "panicked"]
            /\ UNCHANGED <<typed_topics, byte_topics, poisoned, topics,
                           bufs, first, replaced, lastRet>>
       ELSE IF Found(ns, nm, ty)
       THEN /\ Returns(ns, nm, ty, MapOf(ns)[nm][1])
            /\ UNCHANGED <<typed_topics, byte_topics, poisoned, topics,
                           bufs, replaced, pcT>>
       ELSE \E c \in caps :
            IF ~CapacityOk(c)
            THEN /\ pcT' = [pcT EXCEPT ![t] = "panicked"]
                 /\ poisoned' = [poisoned EXCEPT ![ns] = TRUE]
                 /\ UNCHANGED <<typed_topics, byte_topics, topics, bufs,
                                first, replaced, lastRet>>
            ELSE /\ Len(topics) < MaxHandles
                 /\ Creates(ns, nm, ty, c)
                 /\ Returns(ns, nm, ty, Len(topics) + 1)
                 /\ UNCHANGED <<poisoned, pcT>>
    /\ UNCHANGED <<lockWriter, argT, regFrame>>

GetOrCreate(t) ==
    \E ns \in Kinds, nm \in names, ty \in ElemTypes \cup {"bytes"} :
        GetOrCreateOf(t, ns, nm, ty)

\* topic_count: let typed = self.typed_topics.read().unwrap().len().  The
\* read guard is dropped at the end of the statement.
TopicCountTyped(t) ==
    /\ pcT[t] = "idle"
    /\ lockWriter["typed"] = 0
    /\ IF poisoned["typed"]
       THEN /\ pcT' = [pcT EXCEPT ![t] = "panicked"]
            /\ UNCHANGED argT
       ELSE /\ pcT' = [pcT EXCEPT ![t] = "count"]
            /\ argT' = [argT EXCEPT ![t] =
                          [NoArgs EXCEPT !.op = "count",
                                         !.n = MapLen(typed_topics),
                                         !.lo = CountSum(MapLen(typed_topics),
                                                         MapLen(byte_topics))]]
    /\ UNCHANGED <<typed_topics, byte_topics, lockWriter, poisoned, topics,
                   bufs, first, replaced, lastRet, regFrame>>

\* topic_count: let bytes = self.byte_topics.read().unwrap().len();
\* typed + bytes
TopicCountBytes(t) ==
    /\ pcT[t] = "count"
    /\ lockWriter["byte"] = 0
    /\ IF poisoned["byte"]
       THEN /\ pcT' = [pcT EXCEPT ![t] = "panicked"]
            /\ UNCHANGED lastRet
       ELSE /\ pcT' = [pcT EXCEPT ![t] = "idle"]
            /\ lastRet' = [op |-> "count",
                           val |-> <<CountSum(argT[t].n,
                                             MapLen(byte_topics))>>]
    /\ argT' = [argT EXCEPT ![t] = NoArgs]
    /\ UNCHANGED <<typed_topics, byte_topics, lockWriter, poisoned, topics,
                   bufs, first, replaced, regFrame>>

\* topic_count with no lookup between its two reads.
TopicCount == CountSum(MapLen(typed_topics), MapLen(byte_topics))

\* ------------------------------------------------------------ topics

\* The buffer behind the topic h: Topic::buffer.
BufOf(h) == bufs[topics[h].buf]

\* The record a test publishes through the handle h: it names the handle.
Stamp(h) == IF topics[h].ty = "bytes" THEN <<h>> ELSE h

\* Records published so far on all buffers.
Published ==
    LET RECURSIVE Sum(_)
        Sum(i) == IF i = 0 THEN 0 ELSE bufs[i].write_epoch + Sum(i - 1)
    IN  Sum(Len(bufs))

\* Topic::publish / ByteTopic::publish, and Publisher::publish /
\* BytePublisher::publish which forward to it: self.buffer.push(msg).
Publish(h) ==
    /\ h \in 1..Len(topics)
    /\ Published < MaxPub
    /\ LET r == PushOnto(bufs[topics[h].buf], Stamp(h)) IN
          /\ bufs' = [bufs EXCEPT ![topics[h].buf] = r.buf]
          /\ lastRet' = [op |-> "publish", val |-> r.ret]
    /\ UNCHANGED <<typed_topics, byte_topics, lockWriter, poisoned, topics,
                   pcT, argT, first, replaced, regFrame>>

\* Topic::try_receive / ByteTopic::try_receive, and Subscriber::try_recv /
\* ByteSubscriber::try_recv which forward to it: self.buffer.pop().
TryReceive(h) ==
    /\ h \in 1..Len(topics)
    /\ LET r == PopFrom(bufs[topics[h].buf]) IN
          /\ bufs' = [bufs EXCEPT ![topics[h].buf] = r.buf]
          /\ lastRet' = [op |-> "receive", val |-> r.ret]
    /\ UNCHANGED <<typed_topics, byte_topics, lockWriter, poisoned, topics,
                   pcT, argT, first, replaced, regFrame>>

\* impl Clone for Topic / ByteTopic: name: self.name.clone(), buffer:
\* Arc::clone(&self.buffer)
CloneTopicDeep(h) ==
    /\ h \in 1..Len(topics)
    /\ Len(topics) < MaxHandles
    /\ bufs' = Append(bufs, BufOf(h))
    /\ topics' = Append(topics, [topics[h] EXCEPT !.origin = h,
                                                  !.buf = Len(bufs) + 1])
    /\ UNCHANGED <<typed_topics, byte_topics, lockWriter, poisoned,
                   pcT, argT, first, replaced, lastRet, regFrame>>

CloneTopic(h) ==
    /\ h \in 1..Len(topics)
    /\ Len(topics) < MaxHandles
    /\ topics' = Append(topics, [topics[h] EXCEPT !.origin = h])
    /\ UNCHANGED <<typed_topics, byte_topics, lockWriter, poisoned, bufs,
                   pcT, argT, first, replaced, lastRet, regFrame>>

Registry ==
    \E t \in Threads :
        \/ LookupCall(t)
        \/ LookupLock(t)
        \/ LookupFind(t)
        \/ LookupCreate(t)
        \/ TopicCountTyped(t)
        \/ TopicCountBytes(t)

\* Lookups that run from call to return.
Lookups == GetOrCreate(1)

Handles ==
    \E h \in 1..MaxHandles :
        \/ Publish(h)
        \/ TryReceive(h)
        \/ CloneTopic(h)

\* ------------------------------------------------------- subscriber

\* Everything but the subscriber.
subFrame == <<bufVars, done, concurrent, inputs, prodVars, consVars, histVars,
              regVars, regInputs, ffiVars, uartVars, auvVars>>

\* has_new: current > last
IsNewerOrSame(current, last) == current >= last

IsNewer(current, last) == current > last

\* has_new that looks at the unread records only
HasNewLoadUnread ==
    /\ pcS = "idle"
    /\ pcS' = "has_new"
    /\ sCur' = IF BufLen = 0 THEN 0 ELSE LatestEpoch
    /\ sLen' = BufLen
    /\ UNCHANGED <<last_seen_epoch, sRes, subFrame>>

\* Subscriber::has_new / ByteSubscriber::has_new: let current =
\* self.topic.latest_epoch()
HasNewLoad ==
    /\ pcS = "idle"
    /\ pcS' = "has_new"
    /\ sCur' = LatestEpoch
    /\ sLen' = BufLen
    /\ UNCHANGED <<last_seen_epoch, sRes, subFrame>>

\* has_new: let last = self.last_seen_epoch.load(); current > last
HasNewReturn ==
    /\ pcS = "has_new"
    /\ pcS' = "idle"
    /\ sRes' = <<IsNewer(sCur, last_seen_epoch)>>
    /\ UNCHANGED <<last_seen_epoch, sCur, sLen, subFrame>>

\* Subscriber::mark_seen / ByteSubscriber::mark_seen: let current =
\* self.topic.latest_epoch()
MarkSeenLoad ==
    /\ pcS = "idle"
    /\ pcS' = "mark_seen"
    /\ sCur' = LatestEpoch
    /\ UNCHANGED <<last_seen_epoch, sRes, sLen, subFrame>>

\* mark_seen: self.last_seen_epoch.store(current)
MarkSeenStore ==
    /\ pcS = "mark_seen"
    /\ pcS' = "idle"
    /\ last_seen_epoch' = sCur
    /\ UNCHANGED <<sCur, sRes, sLen, subFrame>>

Subscriber ==
    \/ HasNewLoad
    \/ HasNewReturn
    \/ MarkSeenLoad
    \/ MarkSeenStore

\* -------------------------------------------------------------- C ABI

\* max_len arguments the callers pass: shorter than the longer payload, and
\* long enough for both.  The typed handles have the msg_size of the longer
\* payload; records of the other length reach them from byte handles of the
\* same name.
MaxLens == {1, 3}

MsgSizes == {3}

\* A null pointer argument, or one the callee may dereference.
Pointers == {"null", "valid"}

\* ByteRingBuffer::peek_latest run from call to return on the buffer b
PeekLatestOf(b) ==
    IF b.write_epoch = 0
    THEN <<>>
    ELSE LET slot == b.buffer[LatestIdx(b.head, b.capacity)]
         IN  <<[val |-> SliceTo(slot.data, slot.len), epoch |-> slot.epoch]>>

\* The pointer k is a handle of the given sort that was not freed.
LiveHandle(k, typed) ==
    /\ k \in 1..Len(handles)
    /\ handles[k].live
    /\ handles[k].typed = typed

\* The topic behind the handle k, and the index of its buffer.
Inner(k) == handles[k].inner

BufIdx(k) == topics[Inner(k)].buf

\* The value a call hands back: its status (or epoch, for a publish), and the
\* bytes and the epoch it wrote through the out pointers.
FfiReturn(fn, status, data, epoch) ==
    ffiRet' = [fn |-> fn, status |-> status, data |-> data, epoch |-> epoch]

\* Arc::clone / Arc::new on the topic h
ArcClone(s, h) ==
    IF h \in DOMAIN s THEN [s EXCEPT ![h] = @ + 1] ELSE Append(s, 1)

\* drop of one Arc of the topic h
ArcDropLast(s, h) == [s EXCEPT ![h] = 0]

ArcDrop(s, h) == [s EXCEPT ![h] = @ - 1]

\* The topics whose strong count is 0 in s: their ByteTopic was dropped, and
\* the Arc<ByteRingBuffer> it held with it.
Freed(s) == {h \in DOMAIN s : s[h] = 0}

\* bibi_registry_get_byte_topic (typed = FALSE, msg_size 0) and
\* bibi_registry_get_typed_topic: null checks, then get_or_create_byte run
\* from call to return, then a new box around the Arc it returned.  The
\* capacity is at least 1: a capacity of 0 on a new name panics inside the
\* registry.
GetTopic(reg, name, typed, msg_size) ==
    /\ reg = "valid" => regPtr = "live"
    /\ Len(handles) < MaxFfiHandles
    /\ IF reg = "null" \/ name = "null"
       THEN /\ FfiReturn("get_topic", 0, <<>>, 0)
            /\ UNCHANGED <<handles, strong, typed_topics, byte_topics,
                           topics, bufs, first, replaced, lastRet>>
       ELSE /\ ~poisoned["byte"]
            /\ \E nm \in names :
                  IF Found("byte", nm, "bytes")
                  THEN LET h == byte_topics[nm][1] IN
                       /\ Returns("byte", nm, "bytes", h)
                       /\ strong' = ArcClone(strong, h)
                       /\ handles' = Append(handles,
                              [inner |-> h, msg_size |-> msg_size,
                               typed |-> typed, live |-> TRUE])
                       /\ FfiReturn("get_topic", Len(handles) + 1, <<>>, 0)
                       /\ UNCHANGED <<typed_topics, byte_topics, topics,
                                      bufs, replaced>>
                  ELSE \E c \in caps :
                       LET h == Len(topics) + 1 IN
                       /\ CapacityOk(c)
                       /\ Creates("byte", nm, "bytes", c)
                       /\ Returns("byte", nm, "bytes", h)
                       /\ strong' = ArcClone(ArcClone(strong, h), h)
                       /\ handles' = Append(handles,
                              [inner |-> h, msg_size |-> msg_size,
                               typed |-> typed, live |-> TRUE])
                       /\ FfiReturn("get_topic", Len(handles) + 1, <<>>, 0)
    /\ UNCHANGED <<regPtr, dropped, lockWriter, poisoned, pcT, argT, ffiFrame>>

BibiRegistryGetByteTopic ==
    \E reg \in Pointers, name \in Pointers : GetTopic(reg, name, FALSE, 0)

BibiRegistryGetTypedTopic ==
    \E reg \in Pointers, name \in Pointers, n \in MsgSizes :
        GetTopic(reg, name, TRUE, n)

\* bibi_byte_topic_free (typed = FALSE) and bibi_typed_topic_free:
\* drop(Box::from_raw(topic)) drops the handle's Arc<ByteTopic>.
FreeTopic(k, typed) ==
    /\ k = 0 \/ LiveHandle(k, typed)
    /\ IF k = 0
       THEN UNCHANGED <<handles, strong, dropped>>
       ELSE /\ handles' = [handles EXCEPT ![k].live = FALSE]
            /\ strong' = ArcDrop(strong, Inner(k))
            /\ dropped' = Freed(strong')
    /\ FfiReturn("free", 0, <<>>, 0)
    /\ UNCHANGED <<regPtr, regVars, ffiFrame>>

BibiByteTopicFree == \E k \in 0..MaxFfiHandles : FreeTopic(k, FALSE)

BibiTypedTopicFree == \E k \in 0..MaxFfiHandles : FreeTopic(k, TRUE)

RECURSIVE DropEntries(_, _)
\* The maps of the registry are dropped, and every Arc they hold.
DropEntries(s, nms) ==
    IF nms = {} THEN s
    ELSE LET nm == CHOOSE x \in nms : TRUE
             rest == DropEntries(s, nms \ {nm})
         IN  IF byte_topics[nm] = <<>> THEN rest
             ELSE ArcDrop(rest, byte_topics[nm][1])

\* bibi_registry_free: drop(Box::from_raw(registry))
BibiRegistryFree ==
    /\ \E reg \in Pointers :
          /\ reg = "valid" => regPtr = "live"
          /\ IF reg = "null"
             THEN UNCHANGED <<regPtr, strong, dropped, byte_topics>>
             ELSE /\ regPtr' = "freed"
                  /\ strong' = DropEntries(strong, Names)
                  /\ dropped' = Freed(strong')
                  /\ byte_topics' = [nm \in Names |-> <<>>]
    /\ FfiReturn("registry_free", 0, <<>>, 0)
    /\ UNCHANGED <<handles, typed_topics, lockWriter, poisoned, topics, bufs,
                   pcT, argT, first, replaced, lastRet, ffiFrame>>

\* match t.inner.publish(slice) { Some(epoch) => epoch, None => 0 }
PublishStatusAlwaysEpoch(b, ret) == b.write_epoch

PublishStatus(b, ret) == IF ret = <<>> THEN 0 ELSE ret[1]

\* bibi_byte_topic_publish(topic, data, len): the slice is the len bytes at
\* data.
BytePublish(k, data, bytes) ==
    /\ k = 0 \/ LiveHandle(k, FALSE)
    /\ (k # 0 /\ data # "null" /\ Len(bytes) <= MAX_PAYLOAD_SIZE) =>
          Published < MaxFfiPub
    /\ IF k = 0 \/ data = "null"
       THEN /\ FfiReturn("byte_publish", 0, <<>>, 0)
            /\ UNCHANGED bufs
       ELSE LET r == PushOnto(bufs[BufIdx(k)], bytes) IN
            /\ bufs' = [bufs EXCEPT ![BufIdx(k)] = r.buf]
            /\ FfiReturn("byte_publish", PublishStatus(r.buf, r.ret), <<>>, 0)
    /\ UNCHANGED <<regPtr, handles, strong, dropped, typed_topics,
                   byte_topics, lockWriter, poisoned, topics, pcT, argT,
                   first, replaced, lastRet, ffiFrame>>

BibiByteTopicPublish ==
    \E k \in 0..MaxFfiHandles, data \in Pointers, bytes \in Payloads :
        BytePublish(k, data, bytes)

\* bibi_typed_topic_publish(topic, data): the slice is the msg_size bytes at
\* data.
BibiTypedTopicPublish ==
    /\ \E k \in 0..MaxFfiHandles, data \in Pointers, bytes \in Payloads :
          /\ k = 0 \/ LiveHandle(k, TRUE)
          /\ (k # 0 /\ data # "null") =>
                /\ Len(bytes) = handles[k].msg_size
                /\ Published < MaxFfiPub
          /\ IF k = 0 \/ data = "null"
             THEN /\ FfiReturn("typed_publish", 0, <<>>, 0)
                  /\ UNCHANGED bufs
             ELSE LET r == PushOnto(bufs[BufIdx(k)], bytes) IN
                  /\ bufs' = [bufs EXCEPT ![BufIdx(k)] = r.buf]
                  /\ FfiReturn("typed_publish", PublishStatus(r.buf, r.ret),
                               <<>>, 0)
    /\ UNCHANGED <<regPtr, handles, strong, dropped, typed_topics,
                   byte_topics, lockWriter, poisoned, topics, pcT, argT,
                   first, replaced, lastRet, ffiFrame>>

\* bibi_byte_topic_try_receive(topic, out_data, out_len, max_len): out stands
\* for out_data and out_len, null when one of them is.
ByteTryReceive(k, out, max_len) ==
    /\ k = 0 \/ LiveHandle(k, FALSE)
    /\ IF k = 0 \/ out = "null"
       THEN /\ FfiReturn("byte_try_receive", -1, <<>>, 0)
            /\ UNCHANGED bufs
       ELSE LET r == PopFrom(bufs[BufIdx(k)]) IN
            /\ bufs' = [bufs EXCEPT ![BufIdx(k)] = r.buf]
            /\ IF r.ret = <<>>
               THEN FfiReturn("byte_try_receive", 0, <<>>, 0)
               ELSE IF Len(r.ret[1].val) > max_len
               THEN FfiReturn("byte_try_receive", -2, <<>>, 0)
               ELSE FfiReturn("byte_try_receive", 1, r.ret[1].val, 0)
    /\ UNCHANGED <<regPtr, handles, strong, dropped, typed_topics,
                   byte_topics, lockWriter, poisoned, topics, pcT, argT,
                   first, replaced, lastRet, ffiFrame>>

BibiByteTopicTryReceive ==
    \E k \in 0..MaxFfiHandles, out \in Pointers, max_len \in MaxLens :
        ByteTryReceive(k, out, max_len)

\* bibi_byte_topic_peek_latest(topic, out_data, out_len, out_epoch, max_len):
\* the epoch is written only through a non-null out_epoch.
BibiByteTopicPeekLatest ==
    /\ \E k \in 0..MaxFfiHandles, out \in Pointers, out_epoch \in Pointers,
          max_len \in MaxLens :
          /\ k = 0 \/ LiveHandle(k, FALSE)
          /\ IF k = 0 \/ out = "null"
             THEN FfiReturn("byte_peek_latest", -1, <<>>, 0)
             ELSE LET r == PeekLatestOf(bufs[BufIdx(k)]) IN
                  IF r = <<>>
                  THEN FfiReturn("byte_peek_latest", 0, <<>>, 0)
                  ELSE IF Len(r[1].val) > max_len
                  THEN FfiReturn("byte_peek_latest", -2, <<>>, 0)
                  ELSE FfiReturn("byte_peek_latest", 1, r[1].val,
                                 IF out_epoch = "null" THEN 0 ELSE r[1].epoch)
    /\ UNCHANGED <<regPtr, handles, strong, dropped, regVars, ffiFrame>>

\* bibi_typed_topic_try_receive(topic, out_data)
BibiTypedTopicTryReceive ==
    /\ \E k \in 0..MaxFfiHandles, out \in Pointers :
          /\ k = 0 \/ LiveHandle(k, TRUE)
          /\ IF k = 0 \/ out = "null"
             THEN /\ FfiReturn("typed_try_receive", -1, <<>>, 0)
                  /\ UNCHANGED bufs
             ELSE LET r == PopFrom(bufs[BufIdx(k)]) IN
                  /\ bufs' = [bufs EXCEPT ![BufIdx(k)] = r.buf]
                  /\ IF r.ret = <<>>
                     THEN FfiReturn("typed_try_receive", 0, <<>>, 0)
                     ELSE IF Len(r.ret[1].val) # handles[k].msg_size
                     THEN FfiReturn("typed_try_receive", -2, <<>>, 0)
                     ELSE FfiReturn("typed_try_receive", 1, r.ret[1].val, 0)
    /\ UNCHANGED <<regPtr, handles, strong, dropped, typed_topics,
                   byte_topics, lockWriter, poisoned, topics, pcT, argT,
                   first, replaced, lastRet, ffiFrame>>

\* bibi_typed_topic_peek_latest(topic, out_data, out_epoch)
BibiTypedTopicPeekLatest ==
    /\ \E k \in 0..MaxFfiHandles, out \in Pointers, out_epoch \in Pointers :
          /\ k = 0 \/ LiveHandle(k, TRUE)
          /\ IF k = 0 \/ out = "null"
             THEN FfiReturn("typed_peek_latest", -1, <<>>, 0)
             ELSE LET r == PeekLatestOf(bufs[BufIdx(k)]) IN
                  IF r = <<>>
                  THEN FfiReturn("typed_peek_latest", 0, <<>>, 0)
                  ELSE IF Len(r[1].val) # handles[k].msg_size
                  THEN FfiReturn("typed_peek_latest", -2, <<>>, 0)
                  ELSE FfiReturn("typed_peek_latest", 1, r[1].val,
                                 IF out_epoch = "null" THEN 0 ELSE r[1].epoch)
    /\ UNCHANGED <<regPtr, handles, strong, dropped, regVars, ffiFrame>>

\* --------------------------------------------------------------- UART

\* Everything but the bridge.
uartFrame == <<bufVars, done, concurrent, inputs, prodVars, consVars,
               histVars, subVars, regInputs, regVars, ffiVars, auvVars>>

\* Everything but the AUV controller.
auvFrame == <<bufVars, done, concurrent, inputs, prodVars, consVars,
              histVars, subVars, regInputs, regVars, ffiVars, uartVars>>

\* MsgType::from_u8
FromU8(val) ==
    CASE val = 1 -> <<"Imu">>
      [] val = 2 -> <<"Depth">>
      [] val = 3 -> <<"Thruster">>
      [] val = 4 -> <<"Heartbeat">>
      [] val = 16 -> <<"Command">>
      [] val = 17 -> <<"Ack">>
      [] OTHER -> <<>>

\* msg_type as u8
ToU8(t) ==
    CASE t = "Imu" -> 1
      [] t = "Depth" -> 2
      [] t = "Thruster" -> 3
      [] t = "Heartbeat" -> 4
      [] t = "Command" -> 16
      [] t = "Ack" -> 17

\* u8::wrapping_add
WrappingAddSaturating(a, b) == IF a + b > 255 THEN 255 ELSE a + b

WrappingAdd(a, b) == (a + b) % 256

\* The fold of wrapping_add over data[lo..hi], from 0.  wrapping_add is
\* associative, so the fold is taken over the two halves of the range.
RECURSIVE FoldAdd(_, _, _)
FoldAdd(data, lo, hi) ==
    IF lo > hi THEN 0
    ELSE IF lo = hi THEN WrappingAdd(0, data[lo])
    ELSE LET mid == (lo + hi) \div 2
         IN  WrappingAdd(FoldAdd(data, lo, mid), FoldAdd(data, mid + 1, hi))

\* calculate_checksum: data.iter().fold(0u8, |acc, &b| acc.wrapping_add(b))
CalculateChecksum(data) == FoldAdd(data, 1, Len(data))

\* send_frame: the bytes written to the port, <<>> for the Err of a payload
\* that is too large.  payload.len() as u8 cannot truncate below the limit.
SendFrame(msg_type, payload) ==
    IF Len(payload) > MAX_MSG_SIZE
    THEN <<>>
    ELSE LET frame == <<SYNC_BYTE, ToU8(msg_type), Len(payload) % 256>>
                          \o payload
         IN  <<frame \o <<CalculateChecksum(Tail(frame))>>>>

\* rx_buffer.iter().rposition(...): the last sync byte instead of the first.
SyncPosLast(rx) ==
    IF \E i \in 1..Len(rx) : rx[i] = SYNC_BYTE
    THEN (CHOOSE i \in 1..Len(rx) :
             /\ rx[i] = SYNC_BYTE
             /\ \A j \in (i + 1)..Len(rx) : rx[j] # SYNC_BYTE) - 1
    ELSE -1

\* self.rx_buffer.iter().position(|&b| b == SYNC_BYTE), 0-based; -1: None
SyncPos(rx) ==
    IF \E i \in 1..Len(rx) : rx[i] = SYNC_BYTE
    THEN (CHOOSE i \in 1..Len(rx) :
             /\ rx[i] = SYNC_BYTE
             /\ \A j \in 1..(i - 1) : rx[j] # SYNC_BYTE) - 1
    ELSE -1

\* rx_buffer.drain(0..n): the buffer without its first n bytes
Drain(rx, n) == SubSeq(rx, n + 1, Len(rx))

\* let frame_len = 4 + len
FrameLenShort(len) == 3 + len

FrameLen(len) == 4 + len

\* if len > MAX_MSG_SIZE
TooLongLoose(len) == len > 255

TooLong(len) == len > MAX_MSG_SIZE

\* try_parse_frame on the buffer rx: the buffer afterwards and the frame
\* returned (<<>> for None).
TryParseFrame(rx) ==
    IF Len(rx) < 4 THEN [rx |-> rx, frame |-> <<>>]
    ELSE IF SyncPos(rx) = -1 THEN [rx |-> rx, frame |-> <<>>]
    ELSE LET b == Drain(rx, SyncPos(rx)) IN
         IF Len(b) < 4 THEN [rx |-> b, frame |-> <<>>]
         ELSE LET msg_type_byte == b[2]
                  len == b[3]
              IN  IF TooLong(len) THEN [rx |-> Drain(b, 1), frame |-> <<>>]
                  ELSE IF Len(b) < FrameLen(len)
                  THEN [rx |-> b, frame |-> <<>>]
                  ELSE IF b[4 + len] # CalculateChecksum(SubSeq(b, 2, 3 + len))
                  THEN [rx |-> Drain(b, 1), frame |-> <<>>]
                  ELSE IF FromU8(msg_type_byte) = <<>>
                  THEN [rx |-> b, frame |-> <<>>]
                  ELSE [rx |-> Drain(b, FrameLen(len)),
                        frame |-> <<[msg_type |-> FromU8(msg_type_byte)[1],
                                     payload |-> SubSeq(b, 4, 3 + len)]>>]

\* publish_frame: get_or_create_byte(topic_name, 32) and publish on the
\* topic: the topics afterwards and what publish returned.
PublishFrame(tps, frame) ==
    LET nm == ToTopicName(frame.msg_type)
        buf == IF tps[nm] = <<>>
               THEN NewBuffer("byte", BRIDGE_TOPIC_CAPACITY)
               ELSE tps[nm][1]
        r == PushOnto(buf, frame.payload)
    IN  [topics |-> [tps EXCEPT ![nm] = <<r.buf>>], ret |-> r.ret]

\* Sizes of the chunks port.read returns; read_buf holds 256 bytes.
ReadSizes == {3, 256}

\* run_loop: port.read returns n > 0 bytes, which are appended to rx_buffer;
\* process_buffer starts.  A read that returns 0 bytes or times out changes
\* nothing.
PortRead ==
    /\ pcU = "read"
    /\ wire # <<>>
    /\ \E n \in ReadSizes :
          LET k == Min(n, Len(wire)) IN
          /\ rx_buffer' = rx_buffer \o SubSeq(wire, 1, k)
          /\ wire' = Drain(wire, k)
    /\ pcU' = "process"
    /\ UNCHANGED <<bridgeTopics, lastFrame, decoded, uartFrame>>

\* process_buffer: try_parse_frame returned a frame, which is published;
\* the loop goes on.
ProcessFrame ==
    /\ pcU = "process"
    /\ LET r == TryParseFrame(rx_buffer) IN
       /\ r.frame # <<>>
       /\ rx_buffer' = r.rx
       /\ lastFrame' = r.frame
       /\ LET p == PublishFrame(bridgeTopics, r.frame[1]) IN
          /\ bridgeTopics' = p.topics
          /\ decoded' = Append(decoded, [msg_type |-> r.frame[1].msg_type,
                                         payload |-> r.frame[1].payload,
                                         ret |-> p.ret])
    /\ UNCHANGED <<wire, pcU, uartFrame>>

\* process_buffer: try_parse_frame returned None; break.
ProcessBreak ==
    /\ pcU = "process"
    /\ LET r == TryParseFrame(rx_buffer) IN
       /\ r.frame = <<>>
       /\ rx_buffer' = r.rx
       /\ lastFrame' = <<>>
    /\ pcU' = "read"
    /\ UNCHANGED <<wire, bridgeTopics, decoded, uartFrame>>

\* With operations run one at a time, the locals of the pop in flight are the
\* buffer at the top of the current loop iteration.
AtLoopTop ==
    IF pcC \in {"idle", "loop", "we", "se"} THEN ThisBuffer
    ELSE [ThisBuffer EXCEPT !.tail = cTail, !.read_epoch = cRead]

\* PopFrom agrees with the steps of pop: an iteration that retries leaves
\* the outcome of the loop as it was, and a return is the outcome.
PopFromAgrees ==
    [][(~concurrent /\ Pop) =>
          IF pcC' = "idle"
          THEN PopFrom(AtLoopTop) = [buf |-> ThisBuffer', ret |-> cRes']
          ELSE pcC' = "loop" => PopFrom(AtLoopTop) = PopFrom(ThisBuffer')]_vars

\* PushOnto agrees with the steps of push on the fields a push writes.
PushOntoAgrees ==
    [][(~concurrent /\ pcP' = "idle" /\ (PushReject \/ PushHead)) =>
          LET after == ThisBuffer'
              before == IF pcP = "idle" THEN ThisBuffer
                        ELSE [after EXCEPT !.head = pHead,
                                           !.write_epoch = pEpoch - 1]
          IN  PushOnto(before, IF pcP = "idle" THEN pItem' ELSE pItem)
                  = [buf |-> after, ret |-> pRes']]_vars

\* ------------------------------------------------- specifications

Next == Producer \/ Consumer

\* Producer and consumer threads interleave at every load and store.
Init == InitWith(TRUE)

Spec == Init /\ [][Next]_vars

\* A thread that is inside push or pop keeps running: its next load or store
\* is executed eventually.  Nothing makes a thread call an operation.  The
\* producer pushes MaxPushLive records at most.
PushStep == pcP # "idle" /\ Producer

PopStep == pcC # "idle" /\ Pop

LiveProducer == Producer /\ Len(pushed') <= MaxPushLive

NextLive == LiveProducer \/ Pop

SpecLive ==
    /\ Init
    /\ [][NextLive]_vars
    /\ WF_vars(PushStep)
    /\ WF_vars(PopStep)

\* Operations run one at a time: none is called while another is in flight.
InitSeq == InitWith(FALSE)

SpecSeq == InitSeq /\ [][Next]_vars

\* The registry called from two threads at once, with two names and the
\* capacities 0 and 1.
InitRegistrySpec ==
    /\ InitRing(FALSE)
    /\ kind = "typed"
    /\ capacity = 1
    /\ inputs = Items
    /\ names = Names
    /\ caps = SmallCaps

NextRegistry == Registry

SpecRegistry == InitRegistrySpec /\ [][NextRegistry]_vars

\* A subscriber asks for news and marks it seen while the producer publishes,
\* the two threads interleaved at every load and store.
NextSub == Producer \/ Subscriber

SpecSub == Init /\ [][NextSub]_vars

\* A subscriber's thread calls try_recv, peek_latest, has_new and mark_seen
\* one at a time, on the topic a producer publishes MaxRecv records to.
RecvProducer == Producer /\ Len(pushed') <= MaxRecv

\* Subscriber::try_recv / ByteSubscriber::try_recv: self.topic.try_receive(),
\* which is the buffer's pop
TryRecv == pcS = "idle" /\ Pop

\* Subscriber::peek_latest / ByteSubscriber::peek_latest:
\* self.topic.peek_latest(), which is the buffer's peek_latest
SubPeekLatest == pcS = "idle" /\ PeekLatest

\* has_new and mark_seen, called when the thread is in no other call
CursorCalls == pcC = "idle" /\ Subscriber

NextRecv == RecvProducer \/ TryRecv \/ SubPeekLatest \/ CursorCalls

InitRecv == InitSeq /\ inputs = Inputs(kind)

SpecRecv == InitRecv /\ [][NextRecv]_vars

\* A subscriber's thread calls has_new, peek_latest and mark_seen one at a
\* time while the producer's thread publishes, the two threads interleaved at
\* every load and store.
NextSubLoop == Producer \/ SubPeekLatest \/ CursorCalls

SpecSubLoop == Init /\ [][NextSubLoop]_vars

\* The producer pushes and the consumer pops, the two threads interleaved at
\* every load and store; whenever neither is inside an operation the consumer
\* may peek at the oldest record.
NextOldest == Producer \/ Pop \/ PeekOldestRef

SpecOldest == Init /\ [][NextOldest]_vars

\* Topics are looked up, cloned, published on and received from, one call at a
\* time: every call runs from call to return.  One name is used, in both
\* namespaces and with both element types, with all the capacities.
InitTopics ==
    /\ InitRing(FALSE)
    /\ kind = "typed"
    /\ capacity = 1
    /\ inputs = Items
    /\ names = OneName
    /\ caps = Caps

NextTopics == Lookups \/ Handles

SpecTopics == InitTopics /\ [][NextTopics]_vars

\* A C caller uses the registry and its handles through the C ABI, one call
\* at a time, with valid or null pointers, one topic name and capacities 1
\* and 2.
FfiCaps == {1, 2}

InitFfiSpec ==
    /\ InitRing(FALSE)
    /\ kind = "typed"
    /\ capacity = 1
    /\ inputs = Items
    /\ names = OneName
    /\ caps = FfiCaps

NextFfi ==
    \/ BibiRegistryGetByteTopic
    \/ BibiRegistryGetTypedTopic
    \/ BibiByteTopicFree
    \/ BibiTypedTopicFree
    \/ BibiRegistryFree
    \/ BibiByteTopicPublish
    \/ BibiTypedTopicPublish
    \/ BibiByteTopicTryReceive
    \/ BibiByteTopicPeekLatest
    \/ BibiTypedTopicTryReceive
    \/ BibiTypedTopicPeekLatest

SpecFfi == InitFfiSpec /\ [][NextFfi]_vars

\* What a peer puts on the wire.  A frame as the format comment of
\* try_parse_frame gives it, with any type and length byte:
\* [SYNC][TYPE][LEN][PAYLOAD...][CHECKSUM]
RawFrame(type_byte, len_byte, payload) ==
    <<SYNC_BYTE, type_byte, len_byte>> \o payload
        \o <<CalculateChecksum(<<type_byte, len_byte>> \o payload)>>

\* A frame whose checksum byte is off by one.
Corrupt(frame) == [frame EXCEPT ![Len(frame)] = (@ + 1) % 256]

\* Payloads short enough to be split by every read size; the second holds a
\* sync byte and makes the checksum wrap.
ShortPayloads == {<<>>, <<170, 255>>}

\* Chunks of the byte stream: well-formed frames of every type as send_frame
\* builds them, with the empty and the longest payload for one type; frames
\* with a bad checksum, with an unknown type byte, with a length byte of 245
\* and as many payload bytes; and stray bytes.
Chunks ==
    {SendFrame(t, <<170, 255>>)[1] : t \in MsgTypes}
    \cup {SendFrame("Imu", <<>>)[1], SendFrame("Imu", MaxPayload)[1]}
    \cup {Corrupt(SendFrame("Imu", p)[1]) : p \in ShortPayloads}
    \cup {RawFrame(255, Len(p), p) : p \in ShortPayloads}
    \cup {RawFrame(1, Len(Oversize), Oversize)}
    \cup {<<85>>, <<170>>}

RECURSIVE Concat(_)
Concat(chunks) ==
    IF chunks = <<>> THEN <<>> ELSE Head(chunks) \o Concat(Tail(chunks))

\* The byte streams of at most MaxFrames chunks.
Wires ==
    {Concat(cs) : cs \in UNION {[1..n -> Chunks] : n \in 0..MaxFrames}}

\* The bridge reads a byte stream in chunks of some sizes and publishes what
\* it decodes.
InitUart ==
    /\ InitCore(FALSE)
    /\ kind = "typed"
    /\ capacity = 1
    /\ inputs = Items
    /\ names = OneName
    /\ caps = FfiCaps
    /\ \E w \in Wires : InitBridge(w)

NextUart == PortRead \/ ProcessFrame \/ ProcessBreak

SpecUart == InitUart /\ [][NextUart]_vars

\* ---------------------------------------------------- AUV controller
\* ThrustMixer::default().max_thrust
MaxThrust == 100

THRUSTER_PWM_SIZE == 24

\* ThrustMixer::default().mix_matrix: one row per thruster, one column per
\* degree of freedom (surge, sway, heave, roll, pitch, yaw).
MixMatrix ==
    << <<1, -1, 0, 0, 0, -1>>,
       <<1, 1, 0, 0, 0, 1>>,
       <<-1, -1, 0, 0, 0, 1>>,
       <<-1, 1, 0, 0, 0, -1>>,
       <<0, 0, 1, -1, 1, 0>>,
       <<0, 0, 1, 1, 1, 0>> >>

\* The commands the callers of set_thrust choose from. Their components are
\* whole numbers, for which the f32 arithmetic of the mixer is exact.
Commands == {NoThrust, <<50, 0, 0, 0, 0, 0>>, <<100, 100, 0, 0, 0, 100>>}

\* f32::clamp
Clamp(x, lo, hi) == IF x < lo THEN lo ELSE IF x > hi THEN hi ELSE x

\* ThrustMixer::mix: per thruster the sum of coeff * dof, clamped.
Mix(cmd) ==
    [i \in 1..6 |->
        Clamp(MixMatrix[i][1] * cmd[1] + MixMatrix[i][2] * cmd[2]
              + MixMatrix[i][3] * cmd[3] + MixMatrix[i][4] * cmd[4]
              + MixMatrix[i][5] * cmd[5] + MixMatrix[i][6] * cmd[6],
              -MaxThrust, MaxThrust)]

\* ThrustMixer::thrust_to_pwm: (1500.0 + thrust * 4.0) as i32
ThrustToPwm(thrust) == 1500 + thrust * 4

\* ThrustMixer::to_pwm
ToPwm(thrusts) == [i \in 1..6 |-> ThrustToPwm(thrusts[i])]

\* The four bytes of an i32 in memory, least significant first (\div rounds
\* down and % is never negative, which gives the two's complement bytes).
I32Bytes(v) ==
    <<v % 256, (v \div 256) % 256, (v \div 65536) % 256,
      (v \div 16777216) % 256>>

\* ThrusterPwmCmd::new(pwm).to_bytes(): the first THRUSTER_PWM_SIZE bytes
\* of the packed struct of six i32.
PwmToBytes(pwm) ==
    SubSeq(I32Bytes(pwm[1]) \o I32Bytes(pwm[2]) \o I32Bytes(pwm[3])
           \o I32Bytes(pwm[4]) \o I32Bytes(pwm[5]) \o I32Bytes(pwm[6]),
           1, THRUSTER_PWM_SIZE)

\* AuvController::send_frame: the bytes handed to port.write_all, whose
\* result is dropped.
AuvSendFrame(msg_type, payload) ==
    LET frame == <<SYNC_BYTE, ToU8(msg_type), Len(payload) % 256>> \o payload
    IN  frame \o <<CalculateChecksum(Tail(frame))>>

\* ThrusterPwmCmd::new([1500; 6])
NeutralPwm == [i \in 1..6 |-> 1500]

\* The statements of run() between its call and its return.
Executing == {"store", "open", "loop", "read", "tick", "neutral"}

\* start_background / a caller: a thread enters run().
RunCall ==
    /\ pcRun = "idle"
    /\ pcRun' = "store"
    /\ UNCHANGED <<running, thrust_cmd, tx, stopAsked, auvFrame>>

\* run: self.running.store(true, SeqCst)
RunStoreRunning ==
    /\ pcRun = "store"
    /\ running' = TRUE
    /\ pcRun' = "open"
    /\ UNCHANGED <<thrust_cmd, tx, stopAsked, auvFrame>>

\* run: serialport::new(..).open().expect(..): the port opens, or the
\* thread panics.
RunOpen ==
    /\ pcRun = "open"
    /\ pcRun' \in {"loop", "panicked"}
    /\ UNCHANGED <<running, thrust_cmd, tx, stopAsked, auvFrame>>

\* run: while self.running.load(SeqCst)
RunLoopTest ==
    /\ pcRun = "loop"
    /\ pcRun' = IF running THEN "read" ELSE "neutral"
    /\ UNCHANGED <<running, thrust_cmd, tx, stopAsked, auvFrame>>

\* run: port.read returns within its timeout of 100 ms with bytes, with
\* nothing or with an error; process_rx works on the local rx_buffer and on
\* the sensor readings only, which are left out here.
RunRead ==
    /\ pcRun = "read"
    /\ pcRun' = "tick"
    /\ UNCHANGED <<running, thrust_cmd, tx, stopAsked, auvFrame>>

\* run: fewer than 20 ms since the last thrust frame.
RunSkipTx ==
    /\ pcRun = "tick"
    /\ pcRun' = "loop"
    /\ UNCHANGED <<running, thrust_cmd, tx, stopAsked, auvFrame>>

\* run: 20 ms have passed: the command is mixed, converted and sent.
RunSendThrust ==
    /\ pcRun = "tick"
    /\ Len(tx) < MaxTx
    /\ tx' = Append(tx, AuvSendFrame("Thruster",
                                     PwmToBytes(ToPwm(Mix(thrust_cmd)))))
    /\ pcRun' = "loop"
    /\ UNCHANGED <<running, thrust_cmd, stopAsked, auvFrame>>

\* run, after the loop: the neutral frame, then the return.
RunNeutral ==
    /\ pcRun = "neutral"
    /\ tx' = Append(tx, AuvSendFrame("Thruster", PwmToBytes(NeutralPwm)))
    /\ pcRun' = "done"
    /\ UNCHANGED <<running, thrust_cmd, stopAsked, auvFrame>>

\* shutdown: self.running.store(false, SeqCst), from any thread.
Shutdown ==
    /\ running' = FALSE
    /\ stopAsked' = (stopAsked \/ pcRun \in Executing)
    /\ UNCHANGED <<thrust_cmd, pcRun, tx, auvFrame>>

\* set_thrust / stop: the command is replaced under the write lock.
SetThrust ==
    /\ \E cmd \in Commands : thrust_cmd' = cmd
    /\ UNCHANGED <<running, pcRun, tx, stopAsked, auvFrame>>

\* A step of the thread inside run().
RunStep ==
    \/ RunStoreRunning
    \/ RunOpen
    \/ RunLoopTest
    \/ RunRead
    \/ RunSkipTx
    \/ RunSendThrust
    \/ RunNeutral

\* One controller, one thread that calls run(), and callers of shutdown and
\* set_thrust on other threads.
InitAuvRun ==
    /\ InitRing(FALSE)
    /\ kind = "typed"
    /\ capacity = 1
    /\ inputs = Items
    /\ names = OneName
    /\ caps = FfiCaps

NextAuv == RunCall \/ RunStep \/ Shutdown \/ SetThrust

\* The thread inside run() keeps running; nobody has to call anything.
SpecAuv == InitAuvRun /\ [][NextAuv]_vars /\ WF_vars(RunStep)

\* ------------------------------------------------------------ claims

\* The values of the records popped so far, in order.
PoppedVals == [i \in 1..Len(popped) |-> popped[i].val]

\* The consumer has just been told None by a pop.
PopSaidNone == pcC = "idle" /\ cOp = "pop" /\ cRes = <<>>

\* The consumer has just been handed a record by a pop.
PopSaidSome == pcC = "idle" /\ cOp = "pop" /\ cRes # <<>>

\* The drain of the SPSC test is over: the producer set `done`, and a pop
\* called after that returned None.
Drained == done /\ PopSaidNone /\ cAfterDone

\* Some pop returned the record with epoch e.
Received(e) == \E i \in 1..Len(popped) : popped[i].epoch = e

\* C1: one producer, one consumer, interleaved load by load; if no more
\* than `capacity` values are pushed in all, the consumer that pops until
\* the producer is done and then drains until None has received every
\* pushed value exactly once, in push order.
C1_SpscDeliversAllWithinCapacity ==
    (Drained /\ Len(pushed) <= capacity) => PoppedVals = pushed

\* C2: operations one at a time; as long as the unread records never exceed
\* the capacity, the k-th successful pop returns the value of the k-th push
\* (across wrap-around and with exactly `capacity` records unread), and no
\* pop returns a record once every pushed record has been popped.
C2_FifoWithinCapacity ==
    ~gOver =>
        /\ Len(popped) <= Len(pushed)
        /\ \A k \in 1..Len(popped) : popped[k].val = pushed[k]

\* head and tail have wrapped, the buffer was full on the way, and all five
\* records came back.
C2_Witness ==
    /\ ~gOver
    /\ capacity = 3
    /\ Len(popped) = 5
    /\ PopSaidNone
    /\ pcP = "idle"

\* C3: the epochs returned by the successful pushes are 1, 2, 3, ... in
\* call order, whatever the capacity and however pops interleave.
C3_PushEpochsCount ==
    /\ \A i \in 1..Len(pushRet) : pushRet[i] = i
    /\ (pcP = "idle" /\ pRes # <<>>) => pRes = <<Len(pushRet)>>

\* Three pushes returned on a capacity-1 buffer while a pop is in flight.
C3_Witness ==
    /\ capacity = 1
    /\ Len(pushRet) = 3
    /\ pRes = <<3>>
    /\ Len(popped) >= 1
    /\ pcC = "se"

\* C4: operations one at a time; the record a pop returns is the oldest
\* unseen record some slot still holds: its epoch is the smallest e with
\* e > read_epoch and e >= write_epoch - (capacity - 1).
C4_PopReturnsOldestUnseen ==
    PopSaidSome => cRes[1].epoch = gOldest

\* The drain that follows N > capacity pushes, no record popped before it.
DrainAfterOverflow ==
    /\ pcP = "idle"
    /\ gDrain.len >= 0
    /\ gDrain.got = Len(popped)
    /\ Len(pushRet) > capacity

\* C5: after N > capacity pushes and no pop, a drain returns at most
\* `capacity` records, with consecutive increasing epochs that end at N
\* (capacity 3, N = 5: the records 4 and 5).
C5_DrainYieldsSuffix ==
    DrainAfterOverflow =>
        /\ Len(popped) <= capacity
        /\ \A i \in 1..Len(popped) :
              /\ popped[i].epoch \in 1..Len(pushRet)
              /\ i > 1 => popped[i].epoch = popped[i - 1].epoch + 1
        /\ PopSaidNone =>
              /\ Len(popped) >= 1
              /\ popped[Len(popped)].epoch = Len(pushRet)
        /\ (PopSaidNone /\ capacity = 3 /\ Len(pushRet) = 5) =>
              /\ Len(popped) = 2
              /\ popped[1].epoch = 4
              /\ popped[2].epoch = 5

\* Capacity 3, five pushes, then the drain ran to None.
C5_Witness ==
    /\ DrainAfterOverflow
    /\ PopSaidNone
    /\ capacity = 3
    /\ Len(pushRet) = 5
    /\ Len(popped) = 2

\* C6: once the producer has completed its last push, the consumer that
\* keeps popping receives the record of that push (epoch latest_epoch());
\* when pop then says None, nothing is left: len() == 0.
C6_LatestNeverStranded ==
    Drained => (write_epoch = 0 \/ Received(LatestEpoch)) /\ BufLen = 0

\* C7: read_epoch <= write_epoch; len() == min(write_epoch - read_epoch,
\* capacity), so 0 <= len() <= capacity(); is_empty() iff len() == 0 and
\* is_full() iff len() == capacity; and a drain with no further push
\* returns at most len() records.
C7_LenBounds ==
    /\ read_epoch <= write_epoch
    /\ BufLen = Min(write_epoch - read_epoch, capacity)
    /\ 0 <= BufLen /\ BufLen <= capacity
    /\ IsEmpty <=> (write_epoch = read_epoch)
    /\ IsFull <=> (write_epoch - read_epoch >= capacity)
    /\ gDrain.len >= 0 => gDrain.got <= gDrain.len

\* A full buffer of capacity 2 was drained of exactly len() records while
\* the producer had lapped the consumer before.
C7_Witness ==
    /\ capacity = 2
    /\ gDrain.len = 2
    /\ gDrain.got = 2
    /\ gOver
    /\ PopSaidNone

\* C8: no step of peek_latest / peek_latest_ref changes head, tail,
\* write_epoch, read_epoch or a slot.
C8_PeekNeverConsumes ==
    [][PeekLatest => UNCHANGED <<buffer, head, tail, write_epoch, read_epoch>>]_vars

\* A peek returned a record between two pops, with records still unread.
C8_Witness ==
    /\ pcC = "idle"
    /\ cOp = "peek_latest"
    /\ cRes # <<>>
    /\ Len(popped) = 1
    /\ BufLen = 2

\* C9: latest_epoch() is 0 iff no push was ever admitted; after every
\* completed push it is the epoch that push returned; no step of the
\* consumer changes it.
C9_LatestEpoch ==
    /\ [](LatestEpoch = 0 <=> Len(pushed) = 0)
    /\ []((pcP = "idle" /\ Len(pushRet) > 0) => LatestEpoch = pushRet[Len(pushRet)])
    /\ [][Consumer => write_epoch' = write_epoch]_vars

\* Two pushes completed and a pop returned in between and after.
C9_Witness ==
    /\ pcP = "idle"
    /\ Len(pushRet) = 2
    /\ LatestEpoch = 2
    /\ PopSaidSome
    /\ Len(popped) = 2

\* A peek_latest ran from call to return with no push in flight.
PeekUndisturbed == pcC = "idle" /\ cOp = "peek_latest" /\ NoPushSinceCall

\* C10: with no push in flight, peek_latest returns the value of the most
\* recent push with epoch latest_epoch(), for every capacity and whatever
\* was popped or overwritten; it returns None iff no push ever occurred.
C10_PeekLatestIsNewest ==
    PeekUndisturbed =>
        IF Len(pushed) = 0
        THEN cRes = <<>>
        ELSE cRes = <<[val |-> pushed[Len(pushed)], epoch |-> LatestEpoch]>>

\* Capacity 1: the third push overwrote the slot twice, one record was
\* popped, and the peek saw the third.
C10_Witness ==
    /\ PeekUndisturbed
    /\ capacity = 1
    /\ Len(pushRet) = 3
    /\ Len(popped) = 1
    /\ cRes # <<>>

\* The producer thread is free to call push once more.
CanPush ==
    /\ pcP = "idle"
    /\ ProducerMayCall
    /\ ~done
    /\ Len(pushed) < PushLimit

\* C11: ByteRingBuffer::push admits every payload of at most MAX_PAYLOAD_SIZE
\* bytes and rejects every longer one with None; a rejected push changes no
\* field of the buffer and no slot, so it takes no epoch: the next admitted
\* push returns latest_epoch() + 1.
C11_OversizeRejected ==
    /\ [](kind = "byte" /\ CanPush =>
            \A p \in inputs :
                IF Len(p) <= MAX_PAYLOAD_SIZE
                THEN /\ ENABLED (PushWriteEpoch /\ pItem' = p)
                     /\ ~ENABLED (PushReject /\ pItem' = p)
                ELSE /\ ENABLED (PushReject /\ pItem' = p)
                     /\ ~ENABLED (PushWriteEpoch /\ pItem' = p))
    /\ [](kind = "byte" /\ pcP = "idle" /\ Len(pItem) > MAX_PAYLOAD_SIZE =>
            pRes = <<>>)
    /\ [](kind = "byte" =>
            \A k \in 1..Len(pushed) : Len(pushed[k]) <= MAX_PAYLOAD_SIZE)
    /\ [][PushReject => UNCHANGED <<bufVars, pushed, pushRet>>]_vars
    /\ [][(kind = "byte" /\ pcP = "idle" /\ pcP' # "idle") =>
              pEpoch' = LatestEpoch + 1]_vars
    /\ [][(kind = "byte" /\ pcP = "head" /\ pcP' = "idle") =>
              (pRes' = <<pEpoch>> /\ pEpoch = LatestEpoch)]_vars

\* The empty payload was admitted, then a 245-byte payload was rejected, and
\* a push of a 244-byte payload is about to return.
C11_Witness ==
    /\ kind = "byte"
    /\ pcP = "head"
    /\ pRes = <<>>
    /\ pushRet = <<1>>
    /\ pushed = <<<<>>, MaxPayload>>
    /\ pEpoch = 2

\* C12: on a ByteRingBuffer every popped record carries exactly the bytes of
\* the push whose epoch it reports (no byte of a longer payload the slot held
\* before), records come back in push order, and a pop that follows a push
\* made when nothing was unread returns that push's payload with the epoch
\* the push returned.
C12_ByteRoundTrip ==
    kind = "byte" =>
        /\ \A j \in 1..Len(popped) :
              /\ popped[j].epoch \in 1..Len(pushed)
              /\ popped[j].val = pushed[popped[j].epoch]
              /\ Len(popped[j].val) = Len(pushed[popped[j].epoch])
        /\ \A i, j \in 1..Len(popped) :
              i < j => popped[i].epoch < popped[j].epoch
        /\ (pcC = "idle" /\ cOp = "pop" /\ gDrain.len = 1) =>
              /\ gDrain.got = 1
              /\ popped[Len(popped)] =
                    [val |-> pushed[Len(pushed)],
                     epoch |-> pushRet[Len(pushRet)]]

\* One slot held 244 bytes, then 3 bytes, then none; each push was popped
\* before the next one.
C12_Witness ==
    /\ kind = "byte"
    /\ capacity = 1
    /\ pcC = "idle"
    /\ pcP = "idle"
    /\ popped = <<[val |-> MaxPayload, epoch |-> 1],
                  [val |-> <<1, 2, 3>>, epoch |-> 2],
                  [val |-> <<>>, epoch |-> 3]>>

\* The step on which a pop returns.
PopReturns == cOp = "pop" /\ pcC # "idle" /\ pcC' = "idle"

\* C13: with operations run one at a time, pop returns None exactly when
\* read_epoch = write_epoch held at its call (len() = 0; a never-written
\* buffer included); such a pop leaves read_epoch as it was, and no step of
\* pop writes a slot.
C13_NoneIffAllConsumed ==
    /\ [][PopReturns => ((cRes' = <<>>) <=> (cReadAtCall = write_epoch))]_vars
    /\ [][(PopReturns /\ cRes' = <<>>) =>
              /\ read_epoch' = cReadAtCall
              /\ LenOf(write_epoch', read_epoch', capacity) = 0]_vars
    /\ [][Pop => buffer' = buffer]_vars

\* A pop returned None on a buffer whose three records had all been popped.
C13_Witness ==
    /\ PopSaidNone
    /\ pcP = "idle"
    /\ ~concurrent
    /\ write_epoch = 3
    /\ read_epoch = 3
    /\ Len(popped) = 3

\* The step is a whole lookup of the key (ns, nm, ty) that returns a topic.
LookupReturnsFor(ns, nm, ty) ==
    /\ lastRet'.op = "lookup"
    /\ \E t \in Threads : GetOrCreateOf(t, ns, nm, ty) /\ pcT'[t] = "idle"

\* C14: every get_or_create_byte(name, c2) that returns after a
\* get_or_create_byte(name, c1) returned, whatever registry calls ran between
\* them, returns the topic the first call returned.  The buffer of that topic
\* keeps the capacity c1 the first call asked for, the later call leaves
\* topic_count() as it was, and a record received through a byte handle is one
\* that was published through a handle to the same buffer.
C14_ByteLookupIdempotent ==
    /\ [][\A nm \in Names :
            LookupReturnsFor("byte", nm, "bytes") =>
               /\ lastRet'.val = <<first'["byte", nm, "bytes"]>>
               /\ first["byte", nm, "bytes"] # 0 =>
                     /\ lastRet'.val = <<first["byte", nm, "bytes"]>>
                     /\ TopicCount' = TopicCount
                     /\ UNCHANGED <<topics, bufs>>]_vars
    /\ [](\A h \in 1..Len(topics) :
            topics[h].ty = "bytes" =>
               /\ BufOf(h).capacity = topics[h].cap
               /\ topics[h].cap >= 1)
    /\ [][\A h \in 1..Len(topics) :
            (TryReceive(h) /\ topics[h].ty = "bytes" /\ lastRet'.val # <<>>) =>
               LET from == lastRet'.val[1].val[1] IN
                  /\ from \in 1..Len(topics)
                  /\ topics[from].buf = topics[h].buf]_vars

\* A byte topic was made with capacity 2, a record was published on it, a
\* second lookup of its name returned it, and the record was then received.
C14_Witness ==
    /\ Len(topics) = 1
    /\ topics[1].ty = "bytes"
    /\ topics[1].cap = 2
    /\ first["byte", topics[1].name, "bytes"] = 1
    /\ lastRet = [op |-> "lookup", val |-> <<1>>]
    /\ BufOf(1).write_epoch = 1
    /\ BufOf(1).read_epoch = 0

\* The step is the return of the lookup thread t has in flight.
LookupReturns(t) == pcT[t] \in {"lookup", "create"} /\ pcT'[t] = "idle"

\* The topics made so far for the name nm in the namespace ns.
MadeFor(ns, nm) ==
    {h \in 1..Len(topics) :
        /\ topics[h].name = nm
        /\ (ns = "byte") <=> (topics[h].ty = "bytes")}

\* The name was looked up in the byte namespace, or in the typed namespace
\* with at most one element type.
OneTypeIn(f, ns, nm) ==
    ns = "byte" \/ Cardinality({ty \in ElemTypes : f[ns, nm, ty] # 0}) <= 1

OneType(ns, nm) == OneTypeIn(first, ns, nm)

\* C15: with the calls of two threads overlapping in every way, the lookups
\* of one name in the byte namespace, or in the typed namespace with one
\* element type, all return the topic the first of them returned; one buffer
\* has been made for the name once a lookup of it returned and none before;
\* the lookup that makes it raises topic_count() by exactly 1 and the others
\* leave it as it was.
C15_ConcurrentLookupsOneBuffer ==
    /\ [][\A t \in Threads :
            (LookupReturns(t) /\ OneTypeIn(first', argT[t].ns, argT[t].name)) =>
               /\ lastRet'.val = <<first'[argT[t].ns, argT[t].name, argT[t].ty]>>
               /\ TopicCount' = TopicCount
                                 + (IF MapOf(argT[t].ns)[argT[t].name] = <<>>
                                    THEN 1 ELSE 0)]_vars
    /\ [](\A ns \in Kinds, nm \in Names :
            OneType(ns, nm) =>
               /\ Cardinality(MadeFor(ns, nm)) <= 1
               /\ \A h \in MadeFor(ns, nm) :
                     /\ MapOf(ns)[nm] = <<h>>
                     /\ \E ty \in ElemTypes \cup {"bytes"} : first[ns, nm, ty] = h
                     /\ \A g \in MadeFor(ns, nm) : topics[g].buf = topics[h].buf
               /\ MadeFor(ns, nm) = {} => MapOf(ns)[nm] = <<>>)

\* One thread is about to insert the byte topic "a" under the write lock
\* while the other thread has called get_or_create_byte("a") and waits for
\* the lock; a typed topic "a" exists already.
C15_Witness ==
    /\ pcT[1] = "call"
    /\ pcT[2] = "create"
    /\ argT[1].ns = "byte" /\ argT[1].name = "a"
    /\ argT[2].ns = "byte" /\ argT[2].name = "a" /\ argT[2].cap = 1
    /\ lockWriter["byte"] = 2
    /\ byte_topics["a"] = <<>>
    /\ typed_topics["a"] = <<1>>

\* C16: every get_or_create::<T>(name, _) that returns gives the topic the
\* first get_or_create::<T>(name, _) gave, whatever registry calls, lookups
\* of the name with other element types among them, ran in between.
C16_SameTypeSameBuffer ==
    [][\A t \in Threads :
          (LookupReturns(t) /\ argT[t].ns = "typed") =>
             lastRet'.val = <<first'["typed", argT[t].name, argT[t].ty]>>]_vars

\* The topics the registry made for the typed name nm, clones left out.
MadeTyped(nm) == {h \in MadeFor("typed", nm) : topics[h].origin = 0}

\* The largest element of a non-empty set of numbers.
SetMax(S) == CHOOSE x \in S : \A y \in S : y <= x

LookedUp ==
    {k \in Kinds \X Names :
        \E ty \in ElemTypes \cup {"bytes"} : first[k[1], k[2], ty] # 0}

\* The step is the return of the topic_count thread t has in flight.
CountReturns(t) == pcT[t] = "count" /\ pcT'[t] = "idle"

\* C18: the two maps together hold one entry for every name a typed lookup
\* returned a topic for and one for every name a byte lookup returned a topic
\* for, and nothing else; a topic_count() returns that number: the number as
\* it was at some moment between its call and its return, with lookups of
\* other threads in between, and exactly the current number when no entry was
\* added meanwhile.  No step removes an entry or lowers the number.  The
\* typed and the byte entry of one name are topics on different buffers, as
\* are any two topics the registry made.
C18_TopicCount ==
    /\ [](TopicCount = Cardinality(LookedUp))
    /\ [][\A t \in Threads :
            CountReturns(t) =>
               /\ lastRet'.op = "count"
               /\ lastRet'.val[1] >= argT[t].lo
               /\ lastRet'.val[1] <= TopicCount'
               /\ argT[t].lo = TopicCount => lastRet'.val = <<TopicCount>>]_vars
    /\ [][/\ TopicCount' >= TopicCount
          /\ \A nm \in Names :
                /\ typed_topics[nm] # <<>> => typed_topics'[nm] # <<>>
                /\ byte_topics[nm] # <<>> => byte_topics'[nm] # <<>>]_vars
    /\ [](\A h, g \in 1..Len(topics) :
            (h # g /\ topics[h].origin = 0 /\ topics[g].origin = 0)
               => topics[h].buf # topics[g].buf)

\* The name "a" was looked up as i32, then as f64, then in the byte
\* namespace: three topics were made, two entries exist, and a topic_count()
\* called after that returned 2.
C18_Witness ==
    /\ Len(topics) = 3
    /\ replaced = {1}
    /\ typed_topics["a"] = <<2>>
    /\ byte_topics["a"] = <<3>>
    /\ typed_topics["b"] = <<>>
    /\ byte_topics["b"] = <<>>
    /\ topics[2].buf # topics[3].buf
    /\ lastRet = [op |-> "count", val |-> <<2>>]

\* The buffers other than the one behind the topic h are left as they are.
OtherBuffersUnchanged(h) ==
    /\ Len(bufs') = Len(bufs)
    /\ \A b \in 1..Len(bufs) : b # topics[h].buf => bufs'[b] = bufs[b]

\* C19: a clone has the name and the buffer of the topic it was cloned from.
\* A publish through any handle of a buffer returns the buffer's next epoch
\* and writes that buffer only.  A try_receive through any handle of a buffer
\* returns None only when the buffer holds no unread record, whichever handle
\* published; a record it returns was published through a handle of the same
\* buffer and has an epoch above every epoch returned from that buffer
\* before, through whichever handle, so no record is handed out twice.
C19_ClonesShareBuffer ==
    /\ [](\A h \in 1..Len(topics) :
            topics[h].origin # 0 =>
               /\ topics[h].origin \in 1..(h - 1)
               /\ topics[h].name = topics[topics[h].origin].name
               /\ topics[h].buf = topics[topics[h].origin].buf)
    /\ [][\A h \in 1..Len(topics) :
            /\ topics'[h] = topics[h]
            /\ Publish(h) =>
                  /\ lastRet'.val = <<BufOf(h).write_epoch + 1>>
                  /\ bufs'[topics[h].buf].write_epoch = BufOf(h).write_epoch + 1
                  /\ bufs'[topics[h].buf].read_epoch = BufOf(h).read_epoch
                  /\ OtherBuffersUnchanged(h)
            /\ TryReceive(h) =>
                  /\ OtherBuffersUnchanged(h)
                  /\ bufs'[topics[h].buf].write_epoch = BufOf(h).write_epoch
                  /\ IF lastRet'.val = <<>>
                     THEN /\ BufOf(h).read_epoch = BufOf(h).write_epoch
                          /\ bufs'[topics[h].buf].read_epoch = BufOf(h).read_epoch
                     ELSE LET r == lastRet'.val[1]
                              from == IF topics[h].ty = "bytes" THEN r.val[1]
                                      ELSE r.val
                          IN  /\ r.epoch > BufOf(h).read_epoch
                              /\ r.epoch <= BufOf(h).write_epoch
                              /\ bufs'[topics[h].buf].read_epoch = r.epoch
                              /\ from \in 1..Len(topics)
                              /\ topics[from].buf = topics[h].buf]_vars

\* An i32 topic of capacity 2 and its clone: a record was published through
\* the clone and then one through the original; both were received, the
\* second receive (the step is the same through either handle) returning the
\* record of the original with epoch 2.
C19_Witness ==
    /\ Len(topics) = 2
    /\ Len(bufs) = 1
    /\ topics[1].ty = "i32" /\ topics[1].cap = 2 /\ topics[1].origin = 0
    /\ topics[2].origin = 1
    /\ BufOf(1).write_epoch = 2
    /\ BufOf(2).read_epoch = 2
    /\ BufOf(1).buffer[0].data = 2
    /\ lastRet = [op |-> "receive", val |-> <<[val |-> 1, epoch |-> 2]>>]

\* C20: last_seen_epoch starts at 0, never decreases and never exceeds
\* latest_epoch().  has_new() and mark_seen() read latest_epoch() first; a
\* has_new() returns true iff the epoch it read is above last_seen_epoch.
\* With pushes running at the same time: it returns false on a never-written
\* topic, true only when latest_epoch() > last_seen_epoch holds at its
\* return, and exactly latest_epoch() > last_seen_epoch when no push stored
\* an epoch since its read.  A rejected push leaves latest_epoch() alone, so
\* after mark_seen() the answer is false until a push is admitted.
C20_HasNew ==
    /\ last_seen_epoch = 0
    /\ [](last_seen_epoch <= LatestEpoch)
    /\ [][last_seen_epoch' >= last_seen_epoch]_vars
    /\ [][(HasNewLoad \/ MarkSeenLoad) => sCur' = LatestEpoch]_vars
    /\ [][MarkSeenStore => last_seen_epoch' = sCur]_vars
    /\ [][HasNewReturn =>
            /\ sRes' = <<sCur > last_seen_epoch>>
            /\ LatestEpoch = 0 => sRes' = <<FALSE>>
            /\ sRes' = <<TRUE>> => LatestEpoch > last_seen_epoch
            /\ LatestEpoch = sCur =>
                  sRes' = <<LatestEpoch > last_seen_epoch>>
            /\ UNCHANGED last_seen_epoch]_vars
    /\ [][PushReject => UNCHANGED <<write_epoch, subVars>>]_vars

\* On a byte topic: a publish, a mark_seen() that stored epoch 1, a second
\* publish, and a has_new() that read epoch 2 and returned true.
C20_Witness ==
    /\ kind = "byte"
    /\ pushRet = <<1, 2>>
    /\ last_seen_epoch = 1
    /\ pcS = "idle"
    /\ sCur = 2
    /\ sRes = <<TRUE>>

\* C21: the subscriber's cursor is decoupled from consumption.  No step of
\* try_recv or peek_latest changes last_seen_epoch; no step of has_new or
\* mark_seen changes the buffer (head, tail, write_epoch, read_epoch, slots);
\* and a has_new called on a drained buffer (len() = 0, every record up to
\* read_epoch received or passed over by try_recv) still returns true when
\* those records are newer than last_seen_epoch, that is until mark_seen
\* stores their epoch.
C21_CursorDecoupled ==
    /\ [][(TryRecv \/ SubPeekLatest) => UNCHANGED last_seen_epoch]_vars
    /\ [][CursorCalls =>
            UNCHANGED <<head, tail, write_epoch, read_epoch, buffer>>]_vars
    /\ [][(HasNewReturn /\ sLen = 0 /\ read_epoch > last_seen_epoch) =>
            sRes' = <<TRUE>>]_vars

\* Both records were published and received, the pop after them returned
\* None, and the has_new called on the empty buffer returned true.
C21_Witness ==
    /\ pcS = "idle"
    /\ pcC = "idle"
    /\ Len(pushRet) = MaxRecv
    /\ Len(popped) = MaxRecv
    /\ cOp = "pop"
    /\ cRes = <<>>
    /\ sLen = 0
    /\ sRes = <<TRUE>>
    /\ last_seen_epoch = 0

\* C22: at the C ABI, a call of bibi_byte_topic_try_receive,
\* bibi_byte_topic_peek_latest or bibi_typed_topic_try_receive that returns a
\* negative status (-1 null argument, -2 record longer than max_len or of
\* another size than msg_size) leaves every buffer as it was: len(),
\* read_epoch and the record the next receive returns are unchanged.
C22_NegativeStatusKeepsBuffer ==
    [][(/\ ffiRet'.fn \in {"byte_try_receive", "byte_peek_latest",
                            "typed_try_receive"}
        /\ ffiRet'.status < 0
        /\ \/ BibiByteTopicTryReceive
           \/ BibiByteTopicPeekLatest
           \/ BibiTypedTopicTryReceive)
       => bufs' = bufs]_vars

\* C23: bibi_byte_topic_publish returns 0 exactly when the topic or the data
\* pointer is null or len > MAX_PAYLOAD_SIZE, and then no buffer changes;
\* otherwise it returns the epoch it assigned, write_epoch + 1 >= 1, so 0 is
\* never the status of a publish that succeeded.  bibi_byte_topic_try_receive
\* returns 1 only with the popped record copied out, returns 1 whenever the
\* pop gives a record of at most max_len bytes, and returns 0 exactly when
\* the pop it made returns None.
C23_PublishZeroIffFailed ==
    [][/\ ffiRet'.fn = "byte_publish" =>
          \A k \in 0..MaxFfiHandles, data \in Pointers, bytes \in Payloads :
            BytePublish(k, data, bytes) =>
                LET fails == \/ k = 0
                             \/ data = "null"
                             \/ Len(bytes) > MAX_PAYLOAD_SIZE
                IN  /\ (ffiRet'.status = 0) <=> fails
                    /\ fails => bufs' = bufs
                    /\ ~fails =>
                          /\ ffiRet'.status = bufs[BufIdx(k)].write_epoch + 1
                          /\ ffiRet'.status = bufs'[BufIdx(k)].write_epoch
                          /\ ffiRet'.status >= 1
       /\ ffiRet'.fn = "byte_try_receive" =>
          \A k \in 0..MaxFfiHandles, out \in Pointers, max_len \in MaxLens :
            ByteTryReceive(k, out, max_len) =>
                LET called == k # 0 /\ out # "null"
                    ret == IF called THEN PopFrom(bufs[BufIdx(k)]).ret
                           ELSE <<>>
                IN  /\ (ffiRet'.status = 0) <=> (called /\ ret = <<>>)
                    /\ (ffiRet'.status = 1) <=>
                          (called /\ ret # <<>> /\ Len(ret[1].val) <= max_len)
                    /\ ffiRet'.status = 1 => ffiRet'.data = ret[1].val]_vars

\* A publish has failed after one that succeeded: the last call is a publish
\* that returned 0 and the buffer still holds the one record with epoch 1.
C23_Witness ==
    /\ ffiRet.fn = "byte_publish"
    /\ ffiRet.status = 0
    /\ Len(bufs) = 1
    /\ bufs[1].write_epoch = 1
    /\ PeekLatestOf(bufs[1]) = <<[val |-> <<1, 2, 3>>, epoch |-> 1]>>

\* The holders of a reference to the topic h: the entry of the live registry
\* and the handles that were not freed.
Holders(h) ==
    (IF regPtr = "live" /\ \E nm \in Names : byte_topics[nm] = <<h>>
     THEN 1 ELSE 0)
    + Cardinality({k \in 1..Len(handles) :
                      handles[k].live /\ handles[k].inner = h})

\* C24: bibi_byte_topic_free, bibi_typed_topic_free and bibi_registry_free
\* release one holder's reference only.  The strong count of a topic is the
\* number of its holders (registry entry and unfreed handles); the topic and
\* its buffer are dropped exactly when no holder is left, so a handle that
\* was not freed never points to a dropped buffer; and a free changes no
\* buffer and no topic: the unread records stay as they were.
C24_FreeDropsOneReference ==
    /\ [](\A h \in 1..Len(topics) :
             /\ strong[h] = Holders(h)
             /\ (h \in dropped) <=> (Holders(h) = 0))
    /\ [](\A k \in 1..Len(handles) :
             handles[k].live => handles[k].inner \notin dropped)
    /\ [][(BibiByteTopicFree \/ BibiTypedTopicFree \/ BibiRegistryFree) =>
            /\ bufs' = bufs
            /\ topics' = topics
            /\ dropped \subseteq dropped']_vars

\* The registry and the first handle were freed; the second handle of the
\* same topic is left, and the buffer still holds the unread record.
C24_Witness ==
    /\ regPtr = "freed"
    /\ Len(handles) = 2
    /\ ~handles[1].live
    /\ handles[2].live
    /\ handles[1].inner = handles[2].inner
    /\ dropped = {}
    /\ bufs[BufIdx(2)].read_epoch = 0
    /\ PeekLatestOf(bufs[BufIdx(2)]) = <<[val |-> <<1, 2, 3>>, epoch |-> 1]>>

\* The sum of the bytes of data[lo..hi].
RECURSIVE SumBytes(_, _, _)
SumBytes(data, lo, hi) ==
    IF lo > hi THEN 0
    ELSE IF lo = hi THEN data[lo]
    ELSE LET mid == (lo + hi) \div 2
         IN  SumBytes(data, lo, mid) + SumBytes(data, mid + 1, hi)

\* The type bytes of the known message types.
KnownTypeBytes == {1, 2, 3, 4, 16, 17}

\* rx starts with a sync byte, and all the bytes of the frame its length
\* byte announces are there.
CompleteAtFront(rx) ==
    /\ Len(rx) >= 4
    /\ rx[1] = SYNC_BYTE
    /\ Len(rx) >= 4 + rx[3]

\* The checksum byte of the frame at the front of rx is the sum of its type
\* byte, length byte and payload bytes, modulo 256.
ChecksumRight(rx) == rx[4 + rx[3]] = SumBytes(rx, 2, 3 + rx[3]) % 256

\* The complete frame at the front of rx is malformed: length byte above
\* 244, bad checksum, or unknown type byte with a correct checksum.
MalformedAtFront(rx) ==
    /\ CompleteAtFront(rx)
    /\ \/ rx[3] > 244
       \/ ~ChecksumRight(rx)
       \/ rx[2] \notin KnownTypeBytes

\* C25: a try_parse_frame called with a complete malformed frame at the
\* front of rx_buffer (unknown type byte, bad checksum, or length byte above
\* 244) removes the leading sync byte and nothing else, returns no frame and
\* publishes nothing.
C25_MalformedFrameDiscarded ==
    [][((ProcessFrame \/ ProcessBreak) /\ MalformedAtFront(rx_buffer)) =>
          /\ rx_buffer' = Drain(rx_buffer, 1)
          /\ lastFrame' = <<>>
          /\ decoded' = decoded
          /\ bridgeTopics' = bridgeTopics]_vars

\* The frame the claim describes for the type t and the payload p:
\* [0xAA, type, |p|, p..., (type + |p| + sum of p) mod 256].
FrameFor(t, p) ==
    <<170, ToU8(t), Len(p)>> \o p
        \o <<(ToU8(t) + Len(p) + SumBytes(p, 1, Len(p))) % 256>>

\* The payload bytes of the frame at the front of rx.
PayloadAtFront(rx) == SubSeq(rx, 4, 3 + rx[3])

\* rx starts with the frame send_frame builds for the known type t and the
\* payload of the frame at the front.
SentAtFront(rx, t) ==
    /\ CompleteAtFront(rx)
    /\ SendFrame(t, PayloadAtFront(rx)) = <<SubSeq(rx, 1, 4 + rx[3])>>

\* C26: send_frame builds, for a known type and a payload of at most 244
\* bytes, the frame [0xAA, type, |p|, p..., checksum] with checksum = (type +
\* |p| + sum of the payload bytes) mod 256; try_parse_frame called on an
\* rx_buffer that starts with such a frame returns exactly (type, p), removes
\* exactly the 4 + |p| bytes of the frame and leaves the bytes after it in
\* place; and a complete frame whose checksum byte differs from that sum is
\* not decoded.
C26_FrameRoundTrip ==
    [][(ProcessFrame \/ ProcessBreak) =>
          /\ \A t \in MsgTypes :
                SentAtFront(rx_buffer, t) =>
                    LET p == PayloadAtFront(rx_buffer) IN
                    /\ Len(p) <= 244
                    /\ SendFrame(t, p) = <<FrameFor(t, p)>>
                    /\ lastFrame' = <<[msg_type |-> t, payload |-> p]>>
                    /\ rx_buffer' = Drain(rx_buffer, 4 + Len(p))
          /\ (/\ CompleteAtFront(rx_buffer)
              /\ rx_buffer[3] <= 244
              /\ ~ChecksumRight(rx_buffer)) =>
                /\ lastFrame' = <<>>
                /\ decoded' = decoded]_vars

\* A Depth frame whose payload holds a sync byte and whose checksum wraps
\* was decoded, and the frame that followed it is still in rx_buffer.
C26_Witness ==
    /\ pcU = "process"
    /\ lastFrame = <<[msg_type |-> "Depth", payload |-> <<170, 255>>]>>
    /\ Len(decoded) = 1
    /\ rx_buffer = FrameFor("Imu", <<>>)

\* The frames of the type t decoded so far, in order.
DecodedOf(t) ==
    LET IsT(d) == d.msg_type = t IN SelectSeq(decoded, IsT)

\* C27: every frame the decoder accepted has a payload of at most 244 =
\* MAX_PAYLOAD_SIZE bytes and its publish assigned an epoch; the topic of a
\* type holds exactly the frames of that type, in the order they were
\* decoded (the i-th of them with epoch i), so frames of one type stay in
\* order and frames of different types are on different topics.
C27_DecodedFramesPublished ==
    /\ MAX_MSG_SIZE = MAX_PAYLOAD_SIZE
    /\ \A i \in 1..Len(decoded) :
          /\ Len(decoded[i].payload) <= 244
          /\ decoded[i].ret # <<>>
    /\ \A t1, t2 \in MsgTypes : t1 # t2 => ToTopicName(t1) # ToTopicName(t2)
    /\ \A t \in MsgTypes :
          LET ds == DecodedOf(t)
              tp == bridgeTopics[ToTopicName(t)]
          IN  IF ds = <<>> THEN tp = <<>>
              ELSE /\ tp # <<>>
                   /\ tp[1].write_epoch = Len(ds)
                   /\ \A i \in 1..Len(ds) :
                         /\ ds[i].ret = <<i>>
                         /\ tp[1].buffer[i - 1].epoch = i
                         /\ SliceTo(tp[1].buffer[i - 1].data,
                                    tp[1].buffer[i - 1].len) = ds[i].payload

\* Two Imu frames were decoded, the empty one and then the one with 244
\* payload bytes, and published with the epochs 1 and 2.
C27_Witness ==
    /\ Len(decoded) = 2
    /\ decoded[1] = [msg_type |-> "Imu", payload |-> <<>>, ret |-> <<1>>]
    /\ decoded[2] = [msg_type |-> "Imu", payload |-> MaxPayload,
                     ret |-> <<2>>]
    /\ bridgeTopics["/stm32/imu"][1].write_epoch = 2

\* C28: RingBuffer::new(0) and ByteRingBuffer::new(0) are rejected: the call
\* that asks for capacity 0 panics and no topic or buffer is produced.  Every
\* buffer that was constructed has a capacity of at least 1 that never
\* changes, as many slots, and 0 <= head < capacity, 0 <= tail < capacity.
C28_CapacityPositive ==
    /\ [](\A i \in 1..Len(bufs) :
             /\ bufs[i].capacity >= 1
             /\ DOMAIN bufs[i].buffer = 0..(bufs[i].capacity - 1)
             /\ bufs[i].head \in 0..(bufs[i].capacity - 1)
             /\ bufs[i].tail \in 0..(bufs[i].capacity - 1))
    /\ [][/\ Len(bufs') >= Len(bufs)
          /\ \A i \in 1..Len(bufs) : bufs'[i].capacity = bufs[i].capacity
          /\ \A i \in (Len(bufs) + 1)..Len(bufs') :
                /\ topics'[Len(topics')].cap = bufs'[i].capacity
                /\ bufs'[i] = NewBuffer(bufs'[i].kind, bufs'[i].capacity)
          /\ (pcT[1] # "panicked" /\ pcT'[1] = "panicked") =>
                /\ bufs' = bufs
                /\ topics' = topics
                /\ typed_topics' = typed_topics
                /\ byte_topics' = byte_topics]_vars

\* A lookup that asked for capacity 0 has panicked and made no buffer; the
\* one buffer made before it, of capacity 2, has taken two records and given
\* one back: head has wrapped to 0 and tail is 1.
C28_Witness ==
    /\ pcT[1] = "panicked"
    /\ Len(bufs) = 1
    /\ bufs[1].capacity = 2
    /\ bufs[1].write_epoch = 2
    /\ bufs[1].head = 0
    /\ bufs[1].tail = 1

\* C29: every record pop has returned, also one read from a slot on which a
\* push was in flight, is consistent: its payload is the payload that was
\* pushed with the epoch pop observed for it (for ByteRingBuffer the bytes
\* and their number are those pushed with the returned epoch), never the
\* payload of another push and never a mix of two payloads.
C29_PopRecordConsistent ==
    \A j \in 1..Len(popped) :
        /\ popped[j].epoch \in 1..Len(pushed)
        /\ popped[j].val = pushed[popped[j].epoch]

\* C30: with the producer and the consumer interleaved at every load and
\* store, write_epoch never decreases and only push changes it, by one;
\* read_epoch never decreases and only pop's store on the valid-read path or
\* on the overwrite-skip path changes it; no step of push writes tail or
\* read_epoch, and what push loads and stores is given by head, write_epoch,
\* the capacity and its argument alone; no step of pop writes head,
\* write_epoch or a slot.
C30_EpochOwnership ==
    /\ [][write_epoch' >= write_epoch /\ read_epoch' >= read_epoch]_vars
    /\ [][write_epoch' # write_epoch =>
             PushWriteEpoch /\ write_epoch' = write_epoch + 1]_vars
    /\ [][read_epoch' # read_epoch =>
             /\ PopStoreReadEpoch
             /\ cPath \in {"valid", "skip"}
             /\ read_epoch' > read_epoch]_vars
    /\ [][Producer => UNCHANGED <<tail, read_epoch>>]_vars
    /\ [][PushWriteEpoch =>
             pHead' = head /\ pEpoch' = write_epoch + 1]_vars
    /\ [][(PushLen \/ PushData \/ PushSlotEpoch) =>
             /\ \A i \in DOMAIN buffer : i # pHead => buffer'[i] = buffer[i]
             /\ \/ /\ kind = "byte"
                   /\ buffer'[pHead] = [buffer[pHead] EXCEPT !.len = Len(pItem)]
                \/ buffer'[pHead] =
                      [buffer[pHead] EXCEPT !.data =
                          IF kind = "typed" THEN pItem
                          ELSE CopyFromSlice(@, pItem)]
                \/ buffer'[pHead] = [buffer[pHead] EXCEPT !.epoch = pEpoch]]_vars
    /\ [][PushHead => head' = (pHead + 1) % capacity]_vars
    /\ [][Pop => UNCHANGED <<head, write_epoch, buffer>>]_vars

\* A push is in flight while pop, having returned a record before, has just
\* stored the epoch of an overwritten slot into read_epoch on the skip path.
C30_Witness ==
    /\ pcP # "idle"
    /\ pcC = "stail"
    /\ cPath = "skip"
    /\ read_epoch = cSlotEpoch
    /\ Len(popped) >= 1
    /\ write_epoch >= 2

\* The epochs the written slots hold.
SlotEpochs == {buffer[i].epoch : i \in DOMAIN buffer} \ {0}

\* C31: with no push in flight every slot is either never written (epoch 0)
\* or holds an epoch e in 1..write_epoch that a push returned, at index
\* (e - 1) mod capacity; head is write_epoch mod capacity; the written slots
\* hold exactly the epochs max(1, write_epoch - capacity + 1)..write_epoch.
\* While a push is in flight every slot epoch is still at most write_epoch.
C31_SlotEpochs ==
    /\ \A i \in DOMAIN buffer : buffer[i].epoch <= write_epoch
    /\ pcP = "idle" =>
          /\ \A i \in DOMAIN buffer :
                \/ buffer[i].epoch = 0
                \/ /\ buffer[i].epoch \in 1..write_epoch
                   /\ \E n \in 1..Len(pushRet) : pushRet[n] = buffer[i].epoch
                   /\ i = (buffer[i].epoch - 1) % capacity
          /\ head = write_epoch % capacity
          /\ SlotEpochs =
                (IF write_epoch - capacity + 1 > 1
                 THEN write_epoch - capacity + 1 ELSE 1)..write_epoch

\* Three pushes have completed on a buffer of two slots, which hold the
\* epochs 3 and 2, while a pop is in flight.
C31_Witness ==
    /\ pcP = "idle"
    /\ capacity = 2
    /\ write_epoch = 3
    /\ buffer[0].epoch = 3
    /\ buffer[1].epoch = 2
    /\ pcC # "idle"
    /\ cOp = "pop"

\* C32: with no operation in flight peek_oldest_ref returns what a pop called
\* right after it returns, the same value and epoch or None as that pop,
\* and it leaves tail, read_epoch, the slots and len() as they were.
C32_PeekOldestAgrees ==
    [][PeekOldestRef =>
          /\ cRes' = PopFrom(ThisBuffer).ret
          /\ UNCHANGED <<head, tail, write_epoch, read_epoch, buffer>>
          /\ BufLen' = BufLen]_vars

\* The positions push passes, in the order of its statements.
PushOrder ==
    {<<"idle", "len">>, <<"idle", "data">>, <<"len", "data">>,
     <<"data", "epoch">>, <<"epoch", "head">>, <<"head", "idle">>}

\* C33: every pop that is called returns, whether the producer is idle, has
\* stopped inside a push or pushes its finitely many records meanwhile;
\* every push that is called returns, passing each of its statements once,
\* and its next step can be taken whatever the consumer is doing.
C33_OperationsTerminate ==
    /\ (pcC # "idle" /\ cOp = "pop") ~> (pcC = "idle")
    /\ (pcP # "idle") ~> (pcP = "idle")
    /\ [][pcP' # pcP => <<pcP, pcP'>> \in PushOrder]_vars
    /\ [](pcP # "idle" => ENABLED PushStep)
    /\ [](pcC # "idle" => ENABLED PopStep)

\* A pop has gone round its loop past the first record and has returned the
\* second one, while the push of that record was still in flight.
C33_Witness ==
    /\ pcC = "idle"
    /\ cOp = "pop"
    /\ cRes # <<>>
    /\ pcP # "idle"
    /\ Len(popped) = 1
    /\ popped[1].epoch = 2

\* C34: on a ByteRingBuffer, with the producer and the consumer interleaved
\* at every load and store and the producer lapping the consumer, the epochs
\* of the records popped are strictly increasing, and the epoch a pop returns
\* is the value of read_epoch when that pop returns.
C34_PoppedEpochsIncrease ==
    /\ [](kind = "byte" =>
            \A i, j \in 1..Len(popped) :
                i < j => popped[i].epoch < popped[j].epoch)
    /\ [][(kind = "byte" /\ Len(popped') > Len(popped)) =>
             /\ cRes' = <<popped'[Len(popped')]>>
             /\ popped'[Len(popped')].epoch = read_epoch'
             /\ read_epoch' > cRead]_vars

\* A byte buffer has given out two records with an epoch left out between
\* them, the second while a push was in flight.
C34_Witness ==
    /\ kind = "byte"
    /\ pcC = "idle"
    /\ pcP # "idle"
    /\ Len(popped) = 2
    /\ popped[2].epoch > popped[1].epoch + 1
    /\ read_epoch = popped[2].epoch

\* C35: peek_latest and peek_latest_ref, also when they race with a push and
\* with the first push on the buffer, return Some((y, e)) only with e >= 1
\* and y the payload of a push that was called: a slot that was never written
\* (default payload, epoch 0) is never exposed.
C35_PeekLatestNeverUnwritten ==
    (pcC = "idle" /\ cOp = "peek_latest" /\ cRes # <<>>) =>
        /\ cRes[1].epoch >= 1
        /\ \E n \in 1..Len(pushed) : cRes[1].val = pushed[n]

\* The subscriber's last cursor call was a has_new that returned true: the
\* epoch it loaded is above last_seen_epoch (after a mark_seen the two are
\* equal).
HasNewSaidTrue == pcS = "idle" /\ sRes = <<TRUE>> /\ sCur > last_seen_epoch

\* C36: when has_new() has returned true, the peek_latest() the subscriber
\* calls next returns a record whose epoch is greater than last_seen_epoch,
\* whatever the producer does meanwhile.
C36_HasNewThenPeek ==
    [][(SubPeekLatest /\ pcC' = "idle" /\ HasNewSaidTrue) =>
          /\ cRes' # <<>>
          /\ cRes'[1].epoch > last_seen_epoch]_vars

\* C37: a lookup of a new name with capacity 0 is rejected and leaves the
\* maps as they were, and the registry stays usable: only lookups that ask
\* for capacity 0 ever fail; lookups with a valid capacity and topic_count()
\* return, also after such a rejection.
C37_CapacityZeroFailsLocally ==
    [][\A t \in Threads :
          (pcT[t] # "panicked" /\ pcT'[t] = "panicked") =>
              /\ argT[t].op = "lookup"
              /\ ~CapacityOk(argT[t].cap)
              /\ UNCHANGED <<typed_topics, byte_topics, topics, bufs>>]_vars

\* rx starts with a complete well-formed frame: sync byte, known type byte,
\* length byte of at most 244, all bytes there, correct checksum.
WellFormedAtFront(rx) ==
    /\ CompleteAtFront(rx)
    /\ rx[3] <= 244
    /\ rx[2] \in KnownTypeBytes
    /\ ChecksumRight(rx)

\* C38: when process_buffer returns, rx_buffer holds no complete well-formed
\* frame the decoder has yet to reach: the first sync byte left in rx_buffer,
\* if there is one, does not start such a frame, also when garbage bytes or a
\* malformed frame came before it.
C38_NoFrameLeftBehind ==
    [][ProcessBreak =>
          \/ SyncPos(rx_buffer') = -1
          \/ ~WellFormedAtFront(Drain(rx_buffer', SyncPos(rx_buffer')))]_vars

\* The index of the first sync byte of rx, 0 when there is none.
FirstSync(rx) ==
    IF \E i \in 1..Len(rx) : rx[i] = SYNC_BYTE
    THEN CHOOSE i \in 1..Len(rx) :
             /\ rx[i] = SYNC_BYTE
             /\ \A j \in 1..(i - 1) : rx[j] # SYNC_BYTE
    ELSE 0

\* rx from its first sync byte on.
FromSync(rx) ==
    IF FirstSync(rx) = 0 THEN rx ELSE SubSeq(rx, FirstSync(rx), Len(rx))

\* rx starts with the sync byte of a frame of which fewer than 4 + L bytes
\* are there, L <= 244 where the length byte has arrived.
IncompleteAtFront(rx) ==
    /\ Len(rx) >= 1
    /\ rx[1] = SYNC_BYTE
    /\ \/ Len(rx) < 4
       \/ rx[3] <= 244 /\ Len(rx) < 4 + rx[3]

\* C39: a call of try_parse_frame on an rx_buffer that starts with the
\* sync byte of an incomplete frame returns None and removes nothing; bytes
\* before the first sync byte are dropped while the bytes of the incomplete
\* frame behind them stay; a read only appends; and once a well-formed
\* frame is whole behind the first sync byte, the call decodes it once, with
\* the type and payload its bytes carry, and removes exactly its bytes, so
\* no byte before the sync byte is in the payload.
C39_IncompleteFrameKept ==
    /\ [][(ProcessFrame \/ ProcessBreak) =>
             LET rx == rx_buffer
                 f == FromSync(rx_buffer) IN
             /\ IncompleteAtFront(rx) =>
                    /\ rx_buffer' = rx
                    /\ ProcessBreak
                    /\ decoded' = decoded
             /\ (Len(rx) >= 4 /\ FirstSync(rx) > 1 /\ IncompleteAtFront(f)) =>
                    /\ rx_buffer' = f
                    /\ ProcessBreak
                    /\ decoded' = decoded
             /\ (Len(rx) >= 4 /\ FirstSync(rx) >= 1 /\ WellFormedAtFront(f)) =>
                    /\ ProcessFrame
                    /\ lastFrame' = <<[msg_type |-> FromU8(f[2])[1],
                                       payload |-> PayloadAtFront(f)]>>
                    /\ rx_buffer' = SubSeq(f, 5 + f[3], Len(f))
                    /\ Len(decoded') = Len(decoded) + 1
                    /\ decoded'[Len(decoded')].msg_type = FromU8(f[2])[1]
                    /\ decoded'[Len(decoded')].payload = PayloadAtFront(f)]_vars
    /\ [][PortRead =>
             \E k \in 1..Len(wire) :
                rx_buffer' = rx_buffer \o SubSeq(wire, 1, k)]_vars

\* Every read so far took three bytes: the first frame reached rx_buffer in
\* two reads and was decoded once, and the three bytes of the next frame
\* were left in place by the call that followed their read.
C39_Witness ==
    /\ pcU = "read"
    /\ wire # <<>>
    /\ Len(decoded) = 1
    /\ decoded[1].payload = <<170, 255>>
    /\ Len(rx_buffer) = 3
    /\ IncompleteAtFront(rx_buffer)

\* run() has returned and the last frame on the port is the neutral one.
StoppedNeutral ==
    /\ pcRun = "done"
    /\ tx # <<>>
    /\ tx[Len(tx)] = AuvSendFrame("Thruster", PwmToBytes(NeutralPwm))

\* C40: once shutdown() was called while run() was executing, run()
\* eventually returns, the last frame it wrote being the Thruster frame
\* with 1500 for all six thrusters, and nothing is written to the port
\* after run() has returned. A run() that ended in the panic of a port
\* that does not open is not held against it.
C40_ShutdownStopsRun ==
    /\ stopAsked ~> (StoppedNeutral \/ pcRun = "panicked")
    /\ [][pcRun = "done" => tx' = tx]_vars

====
